---- MODULE Spec2Model ----
(***************************************************************************)
(* Simulation core of we-engine (src/wineng.hpp): the entity registry and  *)
(* sparse component pools, the chunked tile world, the tile physics and    *)
(* the tile light map.                                                     *)
(*                                                                         *)
(* C++ vectors are sequences (index i of the source is position i+1 here). *)
(* A handle, the packed u32 [gen:16][idx:16] of the source, is the record  *)
(* of its two 16-bit fields.                                               *)
(***************************************************************************)
EXTENDS Integers, Sequences, FiniteSets, TLC

VARIABLES
    gen,        \* Registry::gen, generation per slot
    free_list,  \* Registry::free_list
    pool,       \* one Pool<T>: [dense_idx, dense_val, sparse]
    live,       \* history: handles returned by create and not destroyed since
    dead,       \* history: handles that a destroy call has invalidated
    held,       \* history: handles whose entity had a component when destroyed
    ndestroy,   \* history: number of destroy calls that took effect
    call,       \* the last call made: [op, h, v, path], path the branch it took
    map,        \* World::map, chunk key -> Chunk
    wcall,      \* the last World call: its arguments, locals and result
    nset,       \* history: number of World::set calls made
    tr,         \* ECS::tr, Pool<CTransform>
    vel,        \* ECS::vel, Pool<CVel>
    col,        \* ECS::col, Pool<CCollider>
    light,      \* ECS::light, Pool<CLight>
    out,        \* the vector gather_lights fills
    rate,       \* sys_physics is called with dt = 1/rate second
    frame,      \* history: parity of the number of frames the main loop ran
    lm,         \* the LightMap: [w, h, ox, oy, L, ambient]
    lcall,      \* the last LightMap call: [op, cam, lights]
    nbuild,     \* history: number of LightMap::build calls made
    scall,      \* the last LightMap::sample_tile call: arguments and result
    work,       \* a build in progress, its position: [busy, si, qi]
    queue       \* the queue of the build in progress: [q, raises]

ecsVars == <<gen, free_list, pool, live, dead, held, ndestroy>>

worldVars == <<map, wcall, nset>>

physVars == <<tr, vel, col, light, out, rate, frame>>

lightVars == <<lm, lcall, nbuild, scall, work, queue>>

vars == <<gen, free_list, pool, live, dead, held, ndestroy, call, map, wcall, nset,
          tr, vel, col, light, out, rate, frame, lm, lcall, nbuild, scall, work, queue>>

-----------------------------------------------------------------------------
(* Bounds of the model *)

\* Registry::create appends a new slot only while fewer slots than this exist.
MaxSlots == 2
\* Number of destroy calls that take effect in one behaviour.
MaxDestroys == 3
\* Component values stored in the pool are 1..MaxVal.
MaxVal == 2
\* The pool alone is called with handles of the entity indices 0..MaxIdx.
MaxIdx == 2
\* World::get and World::set create a chunk only while fewer chunks exist.
MaxChunks == 2
\* Number of World::set calls in one behaviour.
MaxSets == 2
\* sys_physics steps while every entity is within MaxY pixels of row 0.
MaxY == 1024
\* Number of LightMap::build calls in one behaviour.
MaxBuilds == 1
\* Number of LightMap::build calls in a behaviour that builds again.
MaxRebuilds == 2

-----------------------------------------------------------------------------
(* Entity handles: using Entity = u32, packed [gen:16][idx:16] *)

\* Number of values of a 16-bit field.
U16 == 65536

ent_idx(e) == e.idx

ent_gen(e) == e.gen

\* The arguments are u16: a wider value is cut to its low 16 bits.
make_ent(idx, g) == [gen |-> g % U16, idx |-> idx % U16]

-----------------------------------------------------------------------------
(* Registry *)

\* A create() that gives every handle the generation 1.
Registry_create_gen1(g, f) ==
    IF f # <<>>
    THEN [gen |-> g, free_list |-> SubSeq(f, 1, Len(f) - 1),
          e |-> make_ent(f[Len(f)], 1)]
    ELSE [gen |-> Append(g, 1), free_list |-> f, e |-> make_ent(Len(g) % U16, 1)]

\* A create() that appends a slot whether or not an index is free.
Registry_create_fresh(g, f) ==
    [gen |-> Append(g, 1), free_list |-> f, e |-> make_ent(Len(g) % U16, 1)]

\* create(): the registry after the call, and the handle returned.
Registry_create(g, f) ==
    IF f # <<>>
    THEN LET idx == f[Len(f)] IN
         [gen |-> g, free_list |-> SubSeq(f, 1, Len(f) - 1),
          e |-> make_ent(idx, g[idx + 1])]
    ELSE LET idx == Len(g) % U16
             g2  == Append(g, 1)
         IN  [gen |-> g2, free_list |-> f, e |-> make_ent(idx, g2[idx + 1])]

Registry_alive(g, e) ==
    LET idx == ent_idx(e) IN
    IF idx >= Len(g) THEN FALSE ELSE g[idx + 1] = ent_gen(e)

\* destroy(e): gen[idx]++ is a u16 increment, so 65535 is followed by 0.
Registry_destroy(g, f, e) ==
    LET idx == ent_idx(e) IN
    IF idx >= Len(g) THEN [gen |-> g, free_list |-> f]
    ELSE IF g[idx + 1] # ent_gen(e) THEN [gen |-> g, free_list |-> f]
    ELSE [gen |-> [g EXCEPT ![idx + 1] = (g[idx + 1] + 1) % U16],
          free_list |-> Append(f, idx)]

-----------------------------------------------------------------------------
(* Pool<T>: sparse component storage *)

EmptyPool == [dense_idx |-> <<>>, dense_val |-> <<>>, sparse |-> <<>>]

\* ensure_sparse(n): sparse.resize(n, -1) when it is shorter than n.
ensure_sparse(p, n) ==
    IF Len(p.sparse) < n
    THEN [p EXCEPT !.sparse = p.sparse \o [i \in 1..(n - Len(p.sparse)) |-> -1]]
    ELSE p

Pool_has(p, e) ==
    LET idx == ent_idx(e) IN
    IF idx >= Len(p.sparse) THEN FALSE
    ELSE LET di == p.sparse[idx + 1] IN
         /\ di >= 0
         /\ di < Len(p.dense_idx)
         /\ p.dense_idx[di + 1] = idx

\* get(e): <<>> is the null pointer, <<v>> a pointer to the stored value v.
Pool_get(p, e) ==
    LET idx == ent_idx(e) IN
    IF idx >= Len(p.sparse) THEN <<>>
    ELSE LET di == p.sparse[idx + 1] IN
         IF di < 0 THEN <<>>
         ELSE IF di >= Len(p.dense_idx) THEN <<>>
         ELSE IF p.dense_idx[di + 1] # idx THEN <<>>
         ELSE <<p.dense_val[di + 1]>>

\* An add that appends a row whether or not the entity has one.
Pool_add_append(p0, e, v) ==
    LET p == ensure_sparse(p0, ent_idx(e) + 1) IN
    [dense_idx |-> Append(p.dense_idx, ent_idx(e)),
     dense_val |-> Append(p.dense_val, v),
     sparse    |-> [p.sparse EXCEPT ![ent_idx(e) + 1] = Len(p.dense_idx)]]

Pool_add(p0, e, v) ==
    LET p   == ensure_sparse(p0, ent_idx(e) + 1)
        idx == ent_idx(e)
        di  == p.sparse[idx + 1]
    IN  IF di >= 0 /\ di < Len(p.dense_idx) /\ p.dense_idx[di + 1] = idx
        THEN [p EXCEPT !.dense_val[di + 1] = v]
        ELSE [dense_idx |-> Append(p.dense_idx, idx),
              dense_val |-> Append(p.dense_val, v),
              sparse    |-> [p.sparse EXCEPT ![idx + 1] = Len(p.dense_idx)]]

\* remove(e) without the fix-up of the moved row's sparse entry.
Pool_remove_nofix(p, e) ==
    LET idx == ent_idx(e) IN
    IF idx >= Len(p.sparse) THEN p
    ELSE LET di == p.sparse[idx + 1] IN
         IF di < 0 THEN p
         ELSE LET last == Len(p.dense_idx) - 1
                  di2  == IF di # last
                          THEN [p.dense_idx EXCEPT ![di + 1] = p.dense_idx[last + 1]]
                          ELSE p.dense_idx
                  dv2  == IF di # last
                          THEN [p.dense_val EXCEPT ![di + 1] = p.dense_val[last + 1]]
                          ELSE p.dense_val
              IN  [dense_idx |-> SubSeq(di2, 1, last),
                   dense_val |-> SubSeq(dv2, 1, last),
                   sparse    |-> [p.sparse EXCEPT ![idx + 1] = -1]]

\* A remove(e) that drops the last row when e has no row.
Pool_remove_pop(p, e) ==
    IF Pool_has(p, e) \/ p.dense_idx = <<>> THEN Pool_remove_nofix(p, e)
    ELSE [dense_idx |-> SubSeq(p.dense_idx, 1, Len(p.dense_idx) - 1),
          dense_val |-> SubSeq(p.dense_val, 1, Len(p.dense_val) - 1),
          sparse    |-> p.sparse]

Pool_remove(p, e) ==
    LET idx == ent_idx(e) IN
    IF idx >= Len(p.sparse) THEN p
    ELSE LET di == p.sparse[idx + 1] IN
         IF di < 0 THEN p
         ELSE LET last == Len(p.dense_idx) - 1
                  di2  == IF di # last
                          THEN [p.dense_idx EXCEPT ![di + 1] = p.dense_idx[last + 1]]
                          ELSE p.dense_idx
                  dv2  == IF di # last
                          THEN [p.dense_val EXCEPT ![di + 1] = p.dense_val[last + 1]]
                          ELSE p.dense_val
                  sp2  == IF di # last
                          THEN [p.sparse EXCEPT ![di2[di + 1] + 1] = di]
                          ELSE p.sparse
              IN  [dense_idx |-> SubSeq(di2, 1, last),
                   dense_val |-> SubSeq(dv2, 1, last),
                   sparse    |-> [sp2 EXCEPT ![idx + 1] = -1]]

Pool_size(p) == Len(p.dense_idx)

-----------------------------------------------------------------------------
(* int arithmetic.  An int of the source has 32 bits.  Each operation gives *)
(* [v, ovf]: ovf says the mathematical result is no int (signed overflow,   *)
(* undefined behaviour), v is then the result cut to 32 bits (two's         *)
(* complement), the value a build that does not trap computes.              *)

IntMax == 2147483647

IntMin == -IntMax - 1

Neg32(x) ==
    IF x = IntMin THEN [v |-> IntMin, ovf |-> TRUE] ELSE [v |-> -x, ovf |-> FALSE]

Add32(a, b) ==
    IF b >= 0 /\ a > IntMax - b
    THEN [v |-> ((a - IntMax) - 1) + ((b - IntMax) - 1), ovf |-> TRUE]
    ELSE IF b < 0 /\ a < IntMin - b
    THEN [v |-> ((a + IntMax) + 1) + ((b + IntMax) + 1), ovf |-> TRUE]
    ELSE [v |-> a + b, ovf |-> FALSE]

Sub32(a, b) ==
    IF b > 0 /\ a < IntMin + b
    THEN [v |-> ((a + IntMax) + 1) + ((IntMax - b) + 1), ovf |-> TRUE]
    ELSE IF b < 0 /\ a > IntMax + b
    THEN [v |-> ((a - IntMax) - 1) - ((b + IntMax) + 1), ovf |-> TRUE]
    ELSE [v |-> a - b, ovf |-> FALSE]

\* a * 2^k for 0 < k < 31.
MulPow2(a, k) ==
    LET p    == 2 ^ k
        half == 2 ^ (31 - k)
        low  == a % (2 * half)
    IN  [v   |-> IF low >= half THEN (low - 2 * half) * p ELSE low * p,
         ovf |-> a >= half \/ a < -half]

\* a / b of the source for b > 0: the quotient rounded towards zero.
Quot(a, b) == IF a >= 0 THEN a \div b ELSE (a + (b - 1)) \div b

-----------------------------------------------------------------------------
(* World: chunked tile storage *)

\* Tiles per chunk side; CHUNK = 2 ^ ChunkShift.
CHUNK == 32

ChunkShift == 5

\* solid(t)
World_solid(t) == t # 0

\* A key made of cx alone.
World_key_nocy(cx, cy) ==
    << (cx \div U16) % U16, cx % U16, 0, 0 >>

\* A key of each coordinate's low 16 bits.
World_key_low16(cx, cy) ==
    << 0, cx % U16, 0, cy % U16 >>

\* key(cx, cy): the 64-bit value [(u32)cx : (u32)cy], as its four 16-bit
\* digits, most significant first.
World_key(cx, cy) ==
    << (cx \div U16) % U16, cx % U16, (cy \div U16) % U16, cy % U16 >>

\* int ground = (int)(18.0f + sin(wx*0.08f)*4.0f + sin(wx*0.02f)*10.0f), the
\* expression evaluated in binary32 for each column wx of -64..63.
GroundNear ==
    << 12, 12, 12, 12, 12, 12, 12, 12, 12, 12, 12, 12, 12, 12, 12, 12,
       12, 12, 12, 11, 11, 11, 11, 11, 11, 10, 10, 10, 10, 10, 10, 9,
       9, 9, 9, 9, 9, 9, 9, 9, 9, 9, 9, 9, 10, 10, 10, 10,
       11, 11, 11, 11, 12, 12, 13, 13, 14, 14, 14, 15, 15, 16, 16, 17,
       18, 18, 19, 19, 20, 20, 21, 21, 21, 22, 22, 23, 23, 24, 24, 24,
       24, 25, 25, 25, 25, 26, 26, 26, 26, 26, 26, 26, 26, 26, 26, 26,
       26, 26, 25, 25, 25, 25, 25, 25, 24, 24, 24, 24, 24, 24, 23, 23,
       23, 23, 23, 23, 23, 23, 23, 23, 23, 23, 23, 23, 23, 23, 23, 23 >>

\* The same expression for the columns of the outermost chunks: there
\* (f32)wx, and so the ground, is the same for all 32 columns of a chunk.
Ground(wx) ==
    IF wx >= -64 /\ wx <= 63 THEN GroundNear[wx + 65]
    ELSE IF wx >= IntMax - 31 THEN 14
    ELSE 21

\* A generator whose stone starts one row higher.
GenTile_stone10(wx, wy) ==
    LET ground == Ground(wx) IN
    IF wy > ground THEN (IF wy >= ground + 10 THEN 2 ELSE 1)
    ELSE IF wy = ground THEN 4
    ELSE 0

\* The tile code the default generator gives world tile (wx, wy).
GenTile(wx, wy) ==
    LET ground == Ground(wx) IN
    IF wy > ground THEN (IF wy > ground + 10 THEN 2 ELSE 1)
    ELSE IF wy = ground THEN 4
    ELSE 0

\* The chunk get_chunk generates for (cx, cy); tiles[ty*CHUNK + tx + 1].
GenChunk(cx, cy) ==
    [cx |-> cx, cy |-> cy, used |-> TRUE,
     tiles |-> [i \in 1..(CHUNK * CHUNK) |->
                  LET tx == (i - 1) % CHUNK
                      ty == (i - 1) \div CHUNK
                      wx == Add32(MulPow2(cx, ChunkShift).v, tx).v
                      wy == Add32(MulPow2(cy, ChunkShift).v, ty).v
                  IN  GenTile(wx, wy)]]

\* get_chunk(cx, cy): the map after the call (the chunk is then map[key]).
World_get_chunk(m, cx, cy) ==
    LET k == World_key(cx, cy) IN
    IF k \in DOMAIN m THEN m
    ELSE [x \in DOMAIN m \cup {k} |-> IF x = k THEN GenChunk(cx, cy) ELSE m[x]]

\* The chunk coordinate and local offset get and set compute for one axis.
Axis(w) ==
    IF w >= 0
    THEN LET c == Quot(w, CHUNK)
             m == MulPow2(c, ChunkShift)
             l == Sub32(w, m.v)
         IN  [c |-> c, l |-> l.v, ovf |-> m.ovf \/ l.ovf]
    ELSE LET n == Neg32(w)
             a == Add32(n.v, CHUNK)
             s == Sub32(a.v, 1)
             q == Quot(s.v, CHUNK)
             c == Neg32(q)
             m == MulPow2(c.v, ChunkShift)
             l == Sub32(w, m.v)
         IN  [c |-> c.v, l |-> l.v,
              ovf |-> n.ovf \/ a.ovf \/ s.ovf \/ c.ovf \/ m.ovf \/ l.ovf]

\* The locals of get and set from the two axes' results: cx, cy, lx, ly, the
\* tile index (size_t)ly * CHUNK + (size_t)lx (-1 stands for every index
\* past the int range), ovf: an int operation overflowed, oob: the index is
\* outside the tile array.
AddressOf(ax, ay) ==
    LET idx == IF ax.l < 0 \/ ay.l < 0 \/ ay.l > IntMax \div CHUNK - 1 THEN -1
               ELSE ay.l * CHUNK + ax.l
    IN  [cx |-> ax.c, cy |-> ay.c, lx |-> ax.l, ly |-> ay.l, idx |-> idx,
         ovf |-> ax.ovf \/ ay.ovf,
         oob |-> idx < 0 \/ idx >= CHUNK * CHUNK]

Address(wx, wy) == AddressOf(Axis(wx), Axis(wy))

\* return c.tiles[...] with c the chunk of key k in map m (-1: the read is
\* outside the tile array and may give any value).
ReadTile(m, k, a) ==
    [map |-> m, ret |-> IF a.oob THEN -1 ELSE m[k].tiles[a.idx + 1]]

\* c.tiles[...] = v (a write outside the tile array leaves the chunks as
\* they are).
WriteTile(m, k, a, v) ==
    IF a.oob THEN m ELSE [m EXCEPT ![k].tiles[a.idx + 1] = v]

\* get and set once the locals a are computed, in a build that does not trap.
GetAt(m, a) == ReadTile(World_get_chunk(m, a.cx, a.cy), World_key(a.cx, a.cy), a)

SetAt(m, a, v) ==
    WriteTile(World_get_chunk(m, a.cx, a.cy), World_key(a.cx, a.cy), a, v)

\* get(wx, wy): the map after the call and the value returned.
World_get(m, wx, wy) == GetAt(m, Address(wx, wy))

\* set(wx, wy, v): the map after the call.
World_set(m, wx, wy, v) == SetAt(m, Address(wx, wy), v)

\* The tile code of (wx, wy) as a get returns it.
TileAt(m, wx, wy) == World_get(m, wx, wy).ret

-----------------------------------------------------------------------------
(* Tile physics.  An f32 position is held in units of 1/PosUnit pixel, an   *)
(* f32 velocity in units of 1/VelUnit pixel per second, and dt is 1/rate    *)
(* second with rate a power of two.  The values the steps compute from such *)
(* values are again whole numbers of units and stay below 2^24 units, so    *)
(* the binary32 operations of the source are exact on them.                 *)

PosUnit == 1024

VelUnit == 8

\* World::tile_px, world pixels per tile.
tile_px == 32

\* const f32 gravity, pixels per second squared.
gravity == 1200

\* The fall speed sys_physics caps v.y at, pixels per second.
MaxFallSpeed == 3000

\* v * dt for a velocity v, in position units.
TimesDt(v, r) == (v * (PosUnit \div VelUnit)) \div r

\* gravity * dt, in velocity units.
GravityDt(r) == (gravity * VelUnit) \div r

Min(a, b) == IF a < b THEN a ELSE b

\* Pool::entity_at(i, r)
entity_at(p, i, g) == make_ent(p.dense_idx[i + 1], g[p.dense_idx[i + 1] + 1])

\* A write through the pointer get(e) returned (get(e) is not null).
Pool_store(p, e, v) == [p EXCEPT !.dense_val[p.sparse[ent_idx(e) + 1] + 1] = v]

floor_div_tile(x, tp) == x \div (tp * PosUnit)

aabb_overlaps_tile(pos, half, tp, tx, ty) ==
    LET x0 == pos.x - half.x
        x1 == pos.x + half.x
        y0 == pos.y - half.y
        y1 == pos.y + half.y
        t0 == tx * tp * PosUnit
        t1 == t0 + tp * PosUnit
        s0 == ty * tp * PosUnit
        s1 == s0 + tp * PosUnit
    IN  ~(x1 <= t0 \/ x0 >= t1 \/ y1 <= s0 \/ y0 >= s1)

\* min_tx, max_tx, min_ty, max_ty of resolve_axis_x and resolve_axis_y.
TileRange(pos, half, tp) ==
    [min_tx |-> floor_div_tile(pos.x - half.x, tp) - 1,
     max_tx |-> floor_div_tile(pos.x + half.x, tp) + 1,
     min_ty |-> floor_div_tile(pos.y - half.y, tp) - 1,
     max_ty |-> floor_div_tile(pos.y + half.y, tp) + 1]

\* The objects resolve_axis_x and resolve_axis_y work on: *t, *v, *c, the
\* components of e the three get calls point to, the world's chunks, and
\* the loop variables tx and ty.
Body(s, e) ==
    [t |-> Pool_get(s.tr, e)[1], v |-> Pool_get(s.vel, e)[1],
     c |-> Pool_get(s.col, e)[1], map |-> s.map, tx |-> 0, ty |-> 0]

\* The ECS and the world with those objects as b has them.
Stored(s, e, b) ==
    [s EXCEPT !.tr = Pool_store(s.tr, e, b.t), !.vel = Pool_store(s.vel, e, b.v),
              !.col = Pool_store(s.col, e, b.c), !.map = b.map]

\* if(!t||!v||!c)
Incomplete(s, e) ==
    Pool_get(s.tr, e) = <<>> \/ Pool_get(s.vel, e) = <<>> \/ Pool_get(s.col, e) = <<>>

\* resolve_axis_x: a push out along x that stops the body where it is.
PushOutX_stay(b, tx, tp) == [b EXCEPT !.v.v.x = 0]

\* resolve_axis_x: push out along x of the solid, overlapping tile (tx, ty).
PushOutX(b, tx, tp) ==
    [b EXCEPT !.t.pos.x = IF b.v.v.x > 0 THEN tx * tp * PosUnit - b.c.half.x
                          ELSE IF b.v.v.x < 0
                          THEN tx * tp * PosUnit + tp * PosUnit + b.c.half.x
                          ELSE @,
              !.v.v.x = 0]

\* resolve_axis_y: the push out along y that leaves the position as it is.
PushOutY_nomove(b, ty, tp) ==
    [b EXCEPT !.c.on_ground = IF b.v.v.y > 0 THEN TRUE ELSE @,
              !.v.v.y = 0]

\* resolve_axis_y: push out along y of the solid, overlapping tile (tx, ty).
PushOutY(b, ty, tp) ==
    [b EXCEPT !.t.pos.y = IF b.v.v.y > 0 THEN ty * tp * PosUnit - b.c.half.y
                          ELSE IF b.v.v.y < 0
                          THEN ty * tp * PosUnit + tp * PosUnit + b.c.half.y
                          ELSE @,
              !.c.on_ground = IF b.v.v.y > 0 THEN TRUE ELSE @,
              !.v.v.y = 0]

\* The loop body of resolve_axis_x for tile (tx, ty), g the result of
\* world.get(tx, ty).
HitX(b, tx, ty, tp, g) ==
    IF ~World_solid(g.ret) THEN [b EXCEPT !.map = g.map]
    ELSE IF ~aabb_overlaps_tile(b.t.pos, b.c.half, tp, tx, ty)
    THEN [b EXCEPT !.map = g.map]
    ELSE PushOutX([b EXCEPT !.map = g.map], tx, tp)

\* The loop body of resolve_axis_y.
HitY(b, tx, ty, tp, g) ==
    IF ~World_solid(g.ret) THEN [b EXCEPT !.map = g.map]
    ELSE IF ~aabb_overlaps_tile(b.t.pos, b.c.half, tp, tx, ty)
    THEN [b EXCEPT !.map = g.map]
    ELSE PushOutY([b EXCEPT !.map = g.map], ty, tp)

\* The two nested loops of resolve_axis_x from tile (b.tx, b.ty) on; b.tx
\* and b.ty are the loop variables.
RECURSIVE ScanX(_, _, _)
ScanX(b, r, tp) ==
    IF b.ty > r.max_ty THEN b
    ELSE IF b.tx > r.max_tx THEN ScanX([b EXCEPT !.tx = r.min_tx, !.ty = @ + 1], r, tp)
    ELSE ScanX([HitX(b, b.tx, b.ty, tp, World_get(b.map, b.tx, b.ty))
                  EXCEPT !.tx = @ + 1], r, tp)

\* The two nested loops of resolve_axis_y from tile (b.tx, b.ty) on.
RECURSIVE ScanY(_, _, _)
ScanY(b, r, tp) ==
    IF b.ty > r.max_ty THEN b
    ELSE IF b.tx > r.max_tx THEN ScanY([b EXCEPT !.tx = r.min_tx, !.ty = @ + 1], r, tp)
    ELSE ScanY([HitY(b, b.tx, b.ty, tp, World_get(b.map, b.tx, b.ty))
                  EXCEPT !.tx = @ + 1], r, tp)

\* resolve_axis_x after t->pos.x += v->v.x * dt.
ResolveX(b, r, tp) == ScanX([b EXCEPT !.tx = r.min_tx, !.ty = r.min_ty], r, tp)

\* resolve_axis_y after c->on_ground = false; t->pos.y += v->v.y * dt.
ResolveY(b, r, tp) == ScanY([b EXCEPT !.tx = r.min_tx, !.ty = r.min_ty], r, tp)

MovedX(b, r) == [b EXCEPT !.t.pos.x = @ + TimesDt(b.v.v.x, r)]

\* The start of resolve_axis_y without the reset of on_ground.
MovedY_keep(b, r) == [b EXCEPT !.t.pos.y = @ + TimesDt(b.v.v.y, r)]

MovedY(b, r) ==
    [b EXCEPT !.c.on_ground = FALSE, !.t.pos.y = @ + TimesDt(b.v.v.y, r)]

BodyResolveX(b, tp) == ResolveX(b, TileRange(b.t.pos, b.c.half, tp), tp)

BodyResolveY(b, tp) == ResolveY(b, TileRange(b.t.pos, b.c.half, tp), tp)

\* s = [gen, tr, vel, col, map]: the registry, the pools and the world after
\* resolve_axis_x(ecs, world, e, dt) with dt = 1/r.
resolve_axis_x(s, e, r) ==
    IF Incomplete(s, e) THEN s
    ELSE Stored(s, e, BodyResolveX(MovedX(Body(s, e), r), tile_px))

resolve_axis_y(s, e, r) ==
    IF Incomplete(s, e) THEN s
    ELSE Stored(s, e, BodyResolveY(MovedY(Body(s, e), r), tile_px))

\* v->v.y += gravity * dt; v->v.y = std::min(v->v.y, 3000.0f)
Fall(v, r) ==
    [v EXCEPT !.v.y = Min(@ + GravityDt(r), MaxFallSpeed * VelUnit)]

\* The body of the gravity loop for entity e.
GravityOn(s, e, r) ==
    IF ~Registry_alive(s.gen, e) THEN s
    ELSE IF Pool_get(s.vel, e) = <<>> THEN s
    ELSE [s EXCEPT !.vel = Pool_store(s.vel, e, Fall(Pool_get(s.vel, e)[1], r))]

\* A resolve loop body that resolves Y before X.
ResolveOn_yfirst(s, e, r) ==
    IF ~Registry_alive(s.gen, e) THEN s
    ELSE IF Pool_get(s.tr, e) = <<>> \/ Pool_get(s.vel, e) = <<>> THEN s
    ELSE resolve_axis_x(resolve_axis_y(s, e, r), e, r)

\* The body of the resolve loop for entity e.
ResolveOn(s, e, r) ==
    IF ~Registry_alive(s.gen, e) THEN s
    ELSE IF Pool_get(s.tr, e) = <<>> \/ Pool_get(s.vel, e) = <<>> THEN s
    ELSE resolve_axis_y(resolve_axis_x(s, e, r), e, r)

RECURSIVE GravityLoop(_, _, _)
GravityLoop(s, i, r) ==
    IF i >= Pool_size(s.vel) THEN s
    ELSE GravityLoop(GravityOn(s, entity_at(s.vel, i, s.gen), r), i + 1, r)

RECURSIVE ResolveLoop(_, _, _)
ResolveLoop(s, i, r) ==
    IF i >= Pool_size(s.col) THEN s
    ELSE ResolveLoop(ResolveOn(s, entity_at(s.col, i, s.gen), r), i + 1, r)

\* sys_physics(ecs, world, dt) with dt = 1/r.
sys_physics(s, r) == ResolveLoop(GravityLoop(s, 0, r), 0, r)

\* The body of the loop of gather_lights for entity e: the vector after it.
\* Each element also says, as history, for which handle it was pushed.
GatherOn(s, e, o) ==
    IF ~Registry_alive(s.gen, e) THEN o
    ELSE IF Pool_get(s.tr, e) = <<>> \/ Pool_get(s.light, e) = <<>> THEN o
    ELSE Append(o, [pos_px |-> Pool_get(s.tr, e)[1].pos,
                    radius_tiles |-> Pool_get(s.light, e)[1].radius_tiles,
                    intensity |-> Pool_get(s.light, e)[1].intensity,
                    e |-> e])

RECURSIVE GatherLoop(_, _, _)
GatherLoop(s, i, o) ==
    IF i >= Pool_size(s.light) THEN o
    ELSE GatherLoop(s, i + 1, GatherOn(s, entity_at(s.light, i, s.gen), o))

\* gather_lights(ecs, out) for s = [gen, tr, light]: out after the call.
gather_lights(s) == GatherLoop(s, 0, <<>>)

\* The pools as constructed; no dt chosen.
PhysIdle ==
    /\ tr = EmptyPool
    /\ vel = EmptyPool
    /\ col = EmptyPool
    /\ light = EmptyPool
    /\ out = <<>>
    /\ rate = 0
    /\ frame = 0

-----------------------------------------------------------------------------
(* LightMap: tile light grid of the visible region.  Camera and light       *)
(* positions are whole pixels, the zoom is 0 or a power of two and the      *)
(* viewport a multiple of twice the zoom, so the f32 bounds are exact.      *)

\* Tiles added on each side of the visible region.
LightMargin == 4

\* A decay that only solid tiles apply.
Decay_noair(block) == IF block THEN 18 ELSE 0

\* The decay of a solid tile, applied by every tile.
Decay_solid(block) == 18

\* u8 decay = block ? 18 : 12
Decay(block) == IF block THEN 18 ELSE 12

\* u8 nv = (n.v > decay) ? (u8)(n.v - decay) : 0
StepValue(v, decay) == IF v > decay THEN v - decay ELSE 0

\* viewport * 0.5f * invz for one axis.
HalfExtent(vp, zoom) == IF zoom # 0 THEN vp \div (2 * zoom) ELSE vp \div 2

\* ox, oy, w, h as build computes them from the camera.
VisibleGrid(cam, tsz) ==
    LET tx0 == (cam.pos.x - HalfExtent(cam.viewport.x, cam.zoom)) \div tsz - LightMargin
        tx1 == (cam.pos.x + HalfExtent(cam.viewport.x, cam.zoom)) \div tsz + LightMargin
        ty0 == (cam.pos.y - HalfExtent(cam.viewport.y, cam.zoom)) \div tsz - LightMargin
        ty1 == (cam.pos.y + HalfExtent(cam.viewport.y, cam.zoom)) \div tsz + LightMargin
    IN  [ox |-> tx0, oy |-> ty0, w |-> tx1 - tx0 + 1, h |-> ty1 - ty0 + 1]

\* push(x, y, v) that takes the first value a cell is given above ambient.
LightMap_push_first(b, g, x, y, v) ==
    IF x < 0 \/ y < 0 \/ x >= g.w \/ y >= g.h THEN b
    ELSE IF v <= b.L[y * g.w + x + 1] \/ b.L[y * g.w + x + 1] > g.ambient THEN b
    ELSE [b EXCEPT !.L[y * g.w + x + 1] = v,
                   !.q = Append(@, [x |-> x, y |-> y, v |-> v])]

\* A push(x, y, v) that also takes a value equal to the cell's.
LightMap_push_equal(b, g, x, y, v) ==
    IF x < 0 \/ y < 0 \/ x >= g.w \/ y >= g.h THEN b
    ELSE IF v < b.L[y * g.w + x + 1] THEN b
    ELSE [b EXCEPT !.L[y * g.w + x + 1] = v,
                   !.q = Append(@, [x |-> x, y |-> y, v |-> v])]

\* A push(x, y, v) that moves a cell outside the grid to the nearest cell of
\* the grid's edge.
LightMap_push_clamped(b, g, x, y, v) ==
    LET cx == IF x < 0 THEN 0 ELSE IF x >= g.w THEN g.w - 1 ELSE x
        cy == IF y < 0 THEN 0 ELSE IF y >= g.h THEN g.h - 1 ELSE y
    IN  IF v <= b.L[cy * g.w + cx + 1] THEN b
        ELSE [b EXCEPT !.L[cy * g.w + cx + 1] = v,
                       !.q = Append(@, [x |-> cx, y |-> cy, v |-> v])]

\* The lambda push(x, y, v) of build, on b = [L, q, map, qi]: the grid, the
\* queue, the world's chunks and the loop variable qi; g is the grid's shape
\* and the ambient.
LightMap_push(b, g, x, y, v) ==
    IF x < 0 \/ y < 0 \/ x >= g.w \/ y >= g.h THEN b
    ELSE IF v <= b.L[y * g.w + x + 1] THEN b
    ELSE [b EXCEPT !.L[y * g.w + x + 1] = v,
                   !.q = Append(@, [x |-> x, y |-> y, v |-> v])]

\* A step(dx, dy) that takes the decay of the tile the light enters.
LightMap_step_entered(b, g, n, decay, dx, dy) ==
    LightMap_push(b, g, n.x + dx, n.y + dy,
                  StepValue(n.v, Decay(World_solid(
                      TileAt(b.map, g.ox + n.x + dx, g.oy + n.y + dy)))))

\* The lambda step(dx, dy) for node n.
LightMap_step(b, g, n, decay, dx, dy) ==
    LightMap_push(b, g, n.x + dx, n.y + dy, StepValue(n.v, decay))

\* step(1,0); step(-1,0); step(0,1); step(0,-1)
Spread(b, g, n, decay) ==
    LightMap_step(LightMap_step(LightMap_step(LightMap_step(
        b, g, n, decay, 1, 0), g, n, decay, -1, 0), g, n, decay, 0, 1),
        g, n, decay, 0, -1)

\* The body of the propagation loop for node n, r the result of
\* world.get(ox + n.x, oy + n.y), which is called only when n.v > 1.
Visit(b, g, n, r) ==
    IF n.v <= 1 THEN b
    ELSE Spread([b EXCEPT !.map = r.map], g, n, Decay(World_solid(r.ret)))

\* One iteration of the propagation loop: node q[qi], then qi++.
VisitNext(b, g) ==
    [Visit(b, g, b.q[b.qi + 1],
           World_get(b.map, g.ox + b.q[b.qi + 1].x, g.oy + b.q[b.qi + 1].y))
       EXCEPT !.qi = @ + 1]

\* The propagation loop from queue index b.qi on, for at most n iterations:
\* half of them, then the rest.
RECURSIVE PropagateN(_, _, _)
PropagateN(b, g, n) ==
    IF b.qi >= Len(b.q) THEN b
    ELSE IF n <= 1 THEN VisitNext(b, g)
    ELSE PropagateN(PropagateN(b, g, n \div 2), g, n - n \div 2)

\* The propagation loop.  A push raises a cell's u8 value, so the queue
\* never holds more than 255 nodes per cell.
Propagate(b, g) == PropagateN(b, g, g.w * g.h * 255)

\* The tile of a light source: floor(pos_px / tsz) on each axis.
LightTile(ls, tsz) == [x |-> ls.pos_px.x \div tsz, y |-> ls.pos_px.y \div tsz]

\* The seeding loop from light i on.
RECURSIVE SeedFrom(_, _, _, _, _)
SeedFrom(b, g, lights, i, tsz) ==
    IF i > Len(lights) THEN b
    ELSE SeedFrom(LightMap_push(b, g, LightTile(lights[i], tsz).x - g.ox,
                                LightTile(lights[i], tsz).y - g.oy,
                                lights[i].intensity),
                  g, lights, i + 1, tsz)

\* The LightMap and the world when build returns, b the result of its loops.
Built(g, b) ==
    [lm |-> [w |-> g.w, h |-> g.h, ox |-> g.ox, oy |-> g.oy, L |-> b.L,
             ambient |-> g.ambient],
     map |-> b.map]

\* build for the grid shape g = [ox, oy, w, h, ambient].
BuildGrid(m, g, lights, tsz) ==
    IF g.w <= 0 \/ g.h <= 0
    THEN [lm |-> [w |-> 0, h |-> 0, ox |-> g.ox, oy |-> g.oy, L |-> <<>>,
                  ambient |-> g.ambient],
          map |-> m]
    ELSE Built(g, Propagate(SeedFrom([L |-> [i \in 1..(g.w * g.h) |-> g.ambient],
                                      q |-> <<>>, map |-> m, qi |-> 0],
                                     g, lights, 1, tsz),
                            g))

WithAmbient(g, a) ==
    [ox |-> g.ox, oy |-> g.oy, w |-> g.w, h |-> g.h, ambient |-> a]

\* build(world, cam, lights) on a LightMap of the given ambient: the
\* LightMap and the world after the call.
LightMap_build(ambient, m, cam, lights) ==
    BuildGrid(m, WithAmbient(VisibleGrid(cam, tile_px), ambient), lights, tile_px)

\* int x = world_tx - ox; int y = world_ty - oy
SampleOffset(l, world_tx, world_ty) ==
    [x |-> Sub32(world_tx, l.ox), y |-> Sub32(world_ty, l.oy)]

\* sample_tile once x and y are computed.
SampleAt(l, x, y) ==
    IF x < 0 \/ y < 0 \/ x >= l.w \/ y >= l.h THEN l.ambient
    ELSE l.L[y * l.w + x + 1]

\* sample_tile(world_tx, world_ty) in a build that does not trap.
LightMap_sample_tile(l, world_tx, world_ty) ==
    SampleAt(l, Sub32(world_tx, l.ox).v, Sub32(world_ty, l.oy).v)

\* No sample_tile call made.
NoSample == [op |-> "init", tx |-> 0, ty |-> 0, outcome |-> "defined", ret |-> 0]

Camera(x, y, zoom, vx, vy) ==
    [pos |-> [x |-> x, y |-> y], zoom |-> zoom, viewport |-> [x |-> vx, y |-> vy]]

\* Camera2D as constructed (rot plays no part).
DefaultCam ==
    [pos |-> [x |-> 0, y |-> 0], zoom |-> 1, viewport |-> [x |-> 1280, y |-> 720]]

\* No build in progress.  During a build si is the number of the light the
\* seeding loop is at and qi the index of the propagation loop.
NoWork == [busy |-> FALSE, si |-> 0, qi |-> 0]

\* The queue q of a build, empty; raises counts, as history, the stores to
\* L made since L.assign.
NoQueue == [q |-> <<>>, raises |-> 0]

\* The LightMap as constructed, no call made.
LightIdle ==
    /\ lm = [w |-> 0, h |-> 0, ox |-> 0, oy |-> 0, L |-> <<>>, ambient |-> 40]
    /\ lcall = [op |-> "init", cam |-> DefaultCam, lights |-> <<>>]
    /\ nbuild = 0
    /\ scall = NoSample
    /\ work = NoWork
    /\ queue = NoQueue

-----------------------------------------------------------------------------
(* Calls to the registry and the pool *)

\* No handle: the h of a call that takes none.
NoEntity == [gen |-> 0, idx |-> U16]

Call(op, h, v, path) == [op |-> op, h |-> h, v |-> v, path |-> path]

\* The registry and the pool as constructed, no call made.
ECSIdle ==
    /\ gen = <<>>
    /\ free_list = <<>>
    /\ dead = {}
    /\ pool = EmptyPool
    /\ live = <<>>
    /\ held = {}
    /\ ndestroy = 0
    /\ call = Call("init", NoEntity, 0, "")

-----------------------------------------------------------------------------
(* The world driven by arbitrary get and set calls *)

\* World::map as constructed.
EmptyMap == <<>>

\* What a build may do with an overflowing int operation or an access outside
\* the tile array: go on with the wrapped value, or abort the call.
UBOutcomes == {"wrap", "trap"}

\* Tile codes written by set, and read from outside the tile array.
TileVals == {0, 7}

\* World tile coordinates the calls are made with.
XCoords == {IntMin, -IntMax + CHUNK, -CHUNK - 1, -CHUNK, -1, 0, CHUNK - 1, CHUNK, IntMax}

YCoords == {-1, 0}

WCall(op, wx, wy, v, a, outcome, ret) ==
    [op |-> op, wx |-> wx, wy |-> wy, v |-> v, outcome |-> outcome, ret |-> ret,
     cx |-> a.cx, cy |-> a.cy, lx |-> a.lx, ly |-> a.ly, idx |-> a.idx]

NoWCall == WCall("init", 0, 0, 0, Address(0, 0), "defined", 0)

WorldIdle ==
    /\ map = EmptyMap
    /\ wcall = NoWCall
    /\ nset = 0

\* The call may be made: the process has not been aborted, and the chunk
\* exists or may still be created.
WorldCallable(a) ==
    /\ wcall.outcome # "trap"
    /\ \/ World_key(a.cx, a.cy) \in DOMAIN map
       \/ Cardinality(DOMAIN map) < MaxChunks

Outcomes(a) == IF a.ovf \/ a.oob THEN UBOutcomes ELSE {"defined"}

\* get(wx, wy) with the locals a, r the result of a build that does not trap.
GetStep(wx, wy, a, r) ==
    /\ wcall.outcome # "trap"
    /\ \E o \in Outcomes(a) :
         IF o = "trap"
         THEN /\ map' = IF a.ovf THEN map ELSE r.map
              /\ wcall' = WCall("get", wx, wy, 0, a, o, -1)
         ELSE /\ map' = r.map
              /\ \E t \in (IF a.oob THEN TileVals ELSE {r.ret}) :
                   wcall' = WCall("get", wx, wy, 0, a, o, t)
    /\ UNCHANGED <<ecsVars, call, nset, physVars, lightVars>>

GetCall(wx, wy, a, r) == WorldCallable(a) /\ GetStep(wx, wy, a, r)

Get(wx, wy) == GetCall(wx, wy, Address(wx, wy), World_get(map, wx, wy))

\* set(wx, wy, v) with the locals a.
SetStep(wx, wy, v, a) ==
    /\ wcall.outcome # "trap"
    /\ nset < MaxSets
    /\ nset' = nset + 1
    /\ \E o \in Outcomes(a) :
         /\ map' = IF o = "trap"
                   THEN (IF a.ovf THEN map ELSE World_get_chunk(map, a.cx, a.cy))
                   ELSE World_set(map, wx, wy, v)
         /\ wcall' = WCall("set", wx, wy, v, a, o, 0)
    /\ UNCHANGED <<ecsVars, call, physVars, lightVars>>

SetCall(wx, wy, v, a) == WorldCallable(a) /\ SetStep(wx, wy, v, a)

Set(wx, wy, v) == SetCall(wx, wy, v, Address(wx, wy))

InitWorld ==
    /\ ECSIdle
    /\ WorldIdle
    /\ PhysIdle
    /\ LightIdle

NextWorld ==
    \/ \E wx \in XCoords, wy \in YCoords : Get(wx, wy)
    \/ \E wx \in XCoords, wy \in YCoords, v \in TileVals : Set(wx, wy, v)

\* A world alone, called with coordinates up to the ends of the int range.
SpecWorld == InitWorld /\ [][NextWorld]_vars

\* World tile coordinates of the chunks next to the origin.
NearXCoords == {-CHUNK - 1, -CHUNK, -1, 0, CHUNK - 1, CHUNK}

NearYCoords == {-1, 0, 20}

NextChunks == \E wx \in NearXCoords, wy \in NearYCoords : Get(wx, wy)

\* A world no set call is made on, its chunks requested in any order.
SpecChunks == InitWorld /\ [][NextChunks]_vars

\* Chunk coordinates key is called with: the ends of the int range, and
\* values that differ in the high or in the low 16 bits alone.
KeyCoords == {IntMin, -U16, -1, 0, U16, IntMax}

\* World tile columns of the outermost chunks and of the two at the origin.
KeyXCoords == {-IntMax + CHUNK, -1, 0, IntMax}

\* World::key(cx, cy) called on its own; ret is the key.
KeyCall(cx, cy) ==
    /\ wcall.outcome # "trap"
    /\ wcall' = WCall("key", 0, 0, 0,
                      [cx |-> cx, cy |-> cy, lx |-> 0, ly |-> 0, idx |-> 0],
                      "defined", World_key(cx, cy))
    /\ UNCHANGED <<ecsVars, call, map, nset, physVars, lightVars>>

NextKeys ==
    \/ \E cx \in KeyCoords, cy \in KeyCoords : KeyCall(cx, cy)
    \/ \E wx \in KeyXCoords, wy \in YCoords : Get(wx, wy)

\* Keys computed for any pair of chunk coordinates, and chunks requested
\* through get.
SpecKeys == InitWorld /\ [][NextKeys]_vars

-----------------------------------------------------------------------------
(* The registry and one pool driven by arbitrary calls *)

\* The sequence s without the occurrences of x.
RECURSIVE Without(_, _)
Without(s, x) ==
    IF s = <<>> THEN <<>>
    ELSE IF s[1] = x THEN Without(Tail(s), x)
    ELSE <<s[1]>> \o Without(Tail(s), x)

LiveSet == {live[i] : i \in 1..Len(live)}

\* Handles that create has returned so far.
Issued == LiveSet \cup dead

\* One handle of each entity index 0..MaxIdx (the pool reads only the index).
AnyHandles == {make_ent(i, 1) : i \in 0..MaxIdx}

\* The registry after k create/destroy cycles of slot 0 (k = 0: as
\* constructed).  The first handle issued, (idx 0, gen 1), is then dead.
RegistryAfterCycles(k) ==
    IF k = 0
    THEN [gen |-> <<>>, free_list |-> <<>>, dead |-> {}]
    ELSE [gen |-> <<(1 + k) % U16>>, free_list |-> <<0>>,
          dead |-> {make_ent(0, 1)}]

\* Numbers of cycles the behaviours start after.
Cycles == {0, U16 - 2}

InitECS ==
    /\ \E k \in Cycles :
         LET r == RegistryAfterCycles(k) IN
         /\ gen = r.gen
         /\ free_list = r.free_list
         /\ dead = r.dead
    /\ pool = EmptyPool
    /\ live = <<>>
    /\ held = {}
    /\ ndestroy = 0
    /\ call = Call("init", NoEntity, 0, "")
    /\ WorldIdle
    /\ PhysIdle
    /\ LightIdle

Create ==
    /\ free_list # <<>> \/ Len(gen) < MaxSlots
    /\ LET r == Registry_create(gen, free_list) IN
       /\ gen' = r.gen
       /\ free_list' = r.free_list
       /\ live' = Append(live, r.e)
       /\ call' = Call("create", r.e, 0, IF free_list # <<>> THEN "reuse" ELSE "append")
    /\ UNCHANGED <<pool, dead, held, ndestroy, worldVars, physVars, lightVars>>

Destroy(h) ==
    /\ ndestroy < MaxDestroys
    /\ Registry_alive(gen, h)
    /\ LET r == Registry_destroy(gen, free_list, h) IN
       /\ gen' = r.gen
       /\ free_list' = r.free_list
    /\ live' = Without(live, h)
    /\ dead' = dead \cup {h}
    /\ held' = IF Pool_has(pool, h) THEN held \cup {h} ELSE held
    /\ ndestroy' = ndestroy + 1
    /\ call' = Call("destroy", h, 0, "freed")
    /\ UNCHANGED <<pool, worldVars, physVars, lightVars>>

\* destroy(h) of a handle that is not alive: the early returns.
DestroyDead(h) ==
    /\ ~Registry_alive(gen, h)
    /\ LET r == Registry_destroy(gen, free_list, h) IN
       /\ gen' = r.gen
       /\ free_list' = r.free_list
    /\ call' = Call("destroy", h, 0, "noop")
    /\ UNCHANGED <<pool, live, dead, held, ndestroy, worldVars, physVars, lightVars>>

Add(h, v) ==
    /\ pool' = Pool_add(pool, h, v)
    /\ call' = Call("add", h, v, IF Pool_has(pool, h) THEN "overwrite" ELSE "append")
    /\ UNCHANGED <<gen, free_list, live, dead, held, ndestroy, worldVars, physVars, lightVars>>

Remove(h) ==
    /\ pool' = Pool_remove(pool, h)
    /\ call' = Call("remove", h, 0,
                    IF ent_idx(h) >= Len(pool.sparse) THEN "range"
                    ELSE IF pool.sparse[ent_idx(h) + 1] < 0 THEN "absent"
                    ELSE IF pool.sparse[ent_idx(h) + 1] # Len(pool.dense_idx) - 1
                    THEN "swap" ELSE "last")
    /\ UNCHANGED <<gen, free_list, live, dead, held, ndestroy, worldVars, physVars, lightVars>>

NextECS ==
    \/ Create
    \/ \E h \in Issued : Destroy(h)
    \/ \E h \in Issued : DestroyDead(h)
    \/ \E h \in Issued, v \in 1..MaxVal : Add(h, v)
    \/ \E h \in Issued : Remove(h)

\* The registry and a pool, called with the handles create has returned.
Spec == InitECS /\ [][NextECS]_vars

NextRegistry ==
    \/ Create
    \/ \E h \in Issued : Destroy(h)
    \/ \E h \in Issued : DestroyDead(h)

\* The registry alone.
SpecRegistry == InitECS /\ [][NextRegistry]_vars

\* Handles whose index is gen.size(), the first one out of range.
OutOfRange == {make_ent(Len(gen), g) : g \in {1, 2}}

NextDestroys ==
    \/ NextRegistry
    \/ \E h \in OutOfRange : DestroyDead(h)

\* The registry alone, destroy also called with handles out of range.
SpecDestroys == InitECS /\ [][NextDestroys]_vars

InitPool ==
    /\ ECSIdle
    /\ WorldIdle
    /\ PhysIdle
    /\ LightIdle

NextPool ==
    \/ \E h \in AnyHandles, v \in 1..MaxVal : Add(h, v)
    \/ \E h \in AnyHandles : Remove(h)

\* One pool alone, called with handles of any entity index.
SpecPool == InitPool /\ [][NextPool]_vars

-----------------------------------------------------------------------------
(* A scene: a world whose tiles near the origin are empty but for a floor *)

\* The floor: the tiles (x, FloorY) for x = -FloorHalf .. FloorHalf.
FloorY == 10

FloorHalf == 15

\* The tile code the scene gives tile (wx, wy): stone (2) in the floor.
FloorTile(wx, wy) ==
    IF wy = FloorY /\ wx >= -FloorHalf /\ wx <= FloorHalf THEN 2 ELSE 0

\* The chunk c after set(wx, wy, FloorTile(wx, wy)) for each of its tiles.
FloorChunk(c) ==
    [c EXCEPT !.tiles = [i \in 1..(CHUNK * CHUNK) |->
                           FloorTile(c.cx * CHUNK + ((i - 1) % CHUNK),
                                     c.cy * CHUNK + ((i - 1) \div CHUNK))]]

\* The chunks (-1, 0) and (0, 0) as get_chunk creates them.
TwoChunks == World_get_chunk(World_get_chunk(EmptyMap, -1, 0), 0, 0)

\* The world after the set calls that empty the chunks (-1, 0) and (0, 0)
\* and lay the floor.
FloorWorld == [k \in DOMAIN TwoChunks |-> FloorChunk(TwoChunks[k])]

-----------------------------------------------------------------------------
(* One entity dropped above the floor and stepped by sys_physics *)

\* The entity the scene creates first.
Player == Registry_create(<<>>, <<>>).e

\* Start positions (pixels), start velocities v.y (pixels per second) and
\* the dt of the run (1/rate second).
StartXs == {0, 16, -100}

StartYs == {60, 200, 299, 300}

StartVys == {-520, 0, 3000}

Rates == {64, 128}

CTransform(x, y) == [pos |-> [x |-> x, y |-> y]]

CVel(x, y) == [v |-> [x |-> x, y |-> y]]

CCollider(hx, hy) == [half |-> [x |-> hx, y |-> hy], on_ground |-> FALSE]

InitPhysics ==
    /\ gen = Registry_create(<<>>, <<>>).gen
    /\ free_list = <<>>
    /\ live = <<Player>>
    /\ dead = {}
    /\ held = {}
    /\ ndestroy = 0
    /\ pool = EmptyPool
    /\ call = Call("init", NoEntity, 0, "")
    /\ map = FloorWorld
    /\ wcall = NoWCall
    /\ nset = 0
    /\ \E x \in StartXs, y \in StartYs :
         tr = Pool_add(EmptyPool, Player, CTransform(x * PosUnit, y * PosUnit))
    /\ \E vy \in StartVys :
         vel = Pool_add(EmptyPool, Player, CVel(0, vy * VelUnit))
    /\ col = Pool_add(EmptyPool, Player, CCollider(14 * PosUnit, 20 * PosUnit))
    /\ light = EmptyPool
    /\ out = <<>>
    /\ rate \in Rates
    /\ frame = 0
    /\ LightIdle

\* Every entity is within MaxY pixels of the origin's row.
InRange ==
    \A i \in 1..Len(tr.dense_val) :
        /\ tr.dense_val[i].pos.y <= MaxY * PosUnit
        /\ tr.dense_val[i].pos.y >= -MaxY * PosUnit

\* The main loop goes on to its next frame.
Frame ==
    /\ InRange
    /\ frame' = 1 - frame

\* One frame's sys_physics(ecs, world, dt).
Tick ==
    /\ rate # 0
    /\ Frame
    /\ \E s \in {sys_physics([gen |-> gen, tr |-> tr, vel |-> vel, col |-> col,
                              map |-> map], rate)} :
         /\ tr' = s.tr
         /\ vel' = s.vel
         /\ col' = s.col
         /\ map' = s.map
    /\ UNCHANGED <<ecsVars, call, wcall, nset, light, out, rate, lightVars>>

NextPhysics == Tick

\* The main loop runs frame after frame, and sys_physics is called in each.
SpecPhysics == InitPhysics /\ [][NextPhysics]_vars /\ WF_frame(Frame)

-----------------------------------------------------------------------------
(* Two entities, the second with any of its components missing, stepped   *)
(* by the systems while entities are destroyed                             *)

\* The entity the scene creates second.
Second == Registry_create(Registry_create(<<>>, <<>>).gen, <<>>).e

CLight(radius, intensity) == [radius_tiles |-> radius, intensity |-> intensity]

\* The pool p after add(e, v) when the entity is given the component.
AddIf(given, p, e, v) == IF given THEN Pool_add(p, e, v) ELSE p

\* Which of its components the second entity is given.
Givens == [{"tr", "vel", "col", "light"} -> BOOLEAN]

InitSystems ==
    /\ gen = Registry_create(Registry_create(<<>>, <<>>).gen, <<>>).gen
    /\ free_list = <<>>
    /\ live = <<Player, Second>>
    /\ dead = {}
    /\ held = {}
    /\ ndestroy = 0
    /\ pool = EmptyPool
    /\ call = Call("init", NoEntity, 0, "")
    /\ map = FloorWorld
    /\ wcall = NoWCall
    /\ nset = 0
    /\ \E given \in Givens :
         /\ tr = AddIf(given["tr"],
                       Pool_add(EmptyPool, Player, CTransform(0, 296 * PosUnit)),
                       Second, CTransform(16 * PosUnit, 60 * PosUnit))
         /\ vel = AddIf(given["vel"], Pool_add(EmptyPool, Player, CVel(0, 0)),
                        Second, CVel(0, 2900 * VelUnit))
         /\ col = AddIf(given["col"],
                        Pool_add(EmptyPool, Player,
                                 CCollider(14 * PosUnit, 20 * PosUnit)),
                        Second, CCollider(14 * PosUnit, 20 * PosUnit))
         /\ light = AddIf(given["light"], Pool_add(EmptyPool, Player, CLight(12, 255)),
                          Second, CLight(10, 200))
    /\ out = <<>>
    /\ rate = 64
    /\ frame = 0
    /\ LightIdle

\* gather_lights(ecs, lights)
GatherLights ==
    /\ out' = gather_lights([gen |-> gen, tr |-> tr, light |-> light])
    /\ call' = Call("gather", NoEntity, 0, "")
    /\ UNCHANGED <<ecsVars, worldVars, tr, vel, col, light, rate, frame, lightVars>>

NextSystems ==
    \/ Tick
    \/ GatherLights
    \/ \E h \in Issued : Destroy(h)

\* The frame loop's systems, and destroy calls between the frames.
SpecSystems == InitSystems /\ [][NextSystems]_vars

-----------------------------------------------------------------------------
(* One entity moving among steps, walls and a ceiling block                *)

\* The tiles placed on the floor scene: a step up to the right, (3, 9) and
\* (4, 8), a wall on the left, and a block overhead.
StepTiles == << <<3, 9>>, <<4, 8>>, <<-3, 8>>, <<-3, 9>>, <<0, 7>> >>

\* The map m after world.set(x, y, 1) for the tiles of ts from the i-th on.
RECURSIVE SetTiles(_, _, _)
SetTiles(m, ts, i) ==
    IF i > Len(ts) THEN m
    ELSE SetTiles(World_set(m, ts[i][1], ts[i][2], 1), ts, i + 1)

StepWorld == SetTiles(FloorWorld, StepTiles, 1)

\* Start positions (pixels); standing: the AABB's bottom edge is on the top
\* edge of a solid tile.
StepStarts ==
    { [x |-> 60,  y |-> 268, standing |-> FALSE],
      [x |-> 110, y |-> 268, standing |-> TRUE],
      [x |-> 16,  y |-> 300, standing |-> TRUE],
      [x |-> 60,  y |-> 300, standing |-> TRUE] }

\* Start velocities, pixels per second.
StepVxs == {-1920, 0, 3840}

StepVys == {-520, 0}

InitSteps ==
    /\ gen = Registry_create(<<>>, <<>>).gen
    /\ free_list = <<>>
    /\ live = <<Player>>
    /\ dead = {}
    /\ held = {}
    /\ ndestroy = 0
    /\ pool = EmptyPool
    /\ call = Call("init", NoEntity, 0, "")
    /\ map = StepWorld
    /\ wcall = NoWCall
    /\ nset = 0
    /\ \E st \in StepStarts, vx \in StepVxs, vy \in StepVys :
         /\ tr = Pool_add(EmptyPool, Player,
                          CTransform(st.x * PosUnit, st.y * PosUnit))
         /\ vel = Pool_add(EmptyPool, Player, CVel(vx * VelUnit, vy * VelUnit))
         /\ \E og \in (IF st.standing /\ vy = 0 THEN BOOLEAN ELSE {FALSE}) :
              col = Pool_add(EmptyPool, Player,
                             [CCollider(14 * PosUnit, 20 * PosUnit)
                                EXCEPT !.on_ground = og])
    /\ light = EmptyPool
    /\ out = <<>>
    /\ rate \in Rates
    /\ frame = 0
    /\ LightIdle

\* sys_physics called frame after frame on the entity among the steps.
SpecSteps == InitSteps /\ [][NextPhysics]_vars

-----------------------------------------------------------------------------
(* The frame loop of the demo: the player falls and jumps, the torch       *)
(* follows it, and the LightMap is rebuilt in every frame.  The variable   *)
(* pool is ecs.player here.                                                *)

\* lerp(a, b, t) = a + (b - a) * t, with t in 1/256.
lerp(a, b, t) == a + ((b - a) * t) \div 256

CPlayer(move_speed, jump_speed) ==
    [move_speed |-> move_speed, jump_speed |-> jump_speed]

\* A loop body that jumps whenever space is pressed, on the ground or not.
PlayerOn_air(s, e, space, t) ==
    IF ~Registry_alive(s.gen, e) THEN s
    ELSE IF Pool_get(s.player, e) = <<>> \/ Pool_get(s.vel, e) = <<>>
            \/ Pool_get(s.col, e) = <<>> THEN s
    ELSE IF space
    THEN [s EXCEPT
            !.vel = Pool_store(@, e,
                      [v |-> [x |-> lerp(Pool_get(s.vel, e)[1].v.x, 0, t),
                              y |-> -Pool_get(s.player, e)[1].jump_speed]]),
            !.col = Pool_store(@, e, [Pool_get(s.col, e)[1]
                                        EXCEPT !.on_ground = FALSE])]
    ELSE [s EXCEPT
            !.vel = Pool_store(@, e,
                      [Pool_get(s.vel, e)[1]
                         EXCEPT !.v.x = lerp(@, 0, t)])]

\* The body of the loop of sys_player for entity e, with the keys A, D and
\* SHIFT up (the target speed is 0) and space pressed or not; t stands for
\* 1 - exp(-18 dt).
PlayerOn(s, e, space, t) ==
    IF ~Registry_alive(s.gen, e) THEN s
    ELSE IF Pool_get(s.player, e) = <<>> \/ Pool_get(s.vel, e) = <<>>
            \/ Pool_get(s.col, e) = <<>> THEN s
    ELSE IF space /\ Pool_get(s.col, e)[1].on_ground
    THEN [s EXCEPT
            !.vel = Pool_store(@, e,
                      [v |-> [x |-> lerp(Pool_get(s.vel, e)[1].v.x, 0, t),
                              y |-> -Pool_get(s.player, e)[1].jump_speed]]),
            !.col = Pool_store(@, e, [Pool_get(s.col, e)[1]
                                        EXCEPT !.on_ground = FALSE])]
    ELSE [s EXCEPT
            !.vel = Pool_store(@, e,
                      [Pool_get(s.vel, e)[1]
                         EXCEPT !.v.x = lerp(@, 0, t)])]

RECURSIVE PlayerLoop(_, _, _, _)
PlayerLoop(s, i, space, t) ==
    IF i >= Pool_size(s.player) THEN s
    ELSE PlayerLoop(PlayerOn(s, entity_at(s.player, i, s.gen), space, t),
                    i + 1, space, t)

\* sys_player(ecs, in, dt)
sys_player(s, space) == PlayerLoop(s, 0, space, 63)

\* The entity the demo creates second: the torch.
TorchEntity == Second

\* if(pt) if(tt) tt->pos = add(pt->pos, V2(0, -20))
TorchFollows(s) ==
    IF Pool_get(s.tr, Player) = <<>> \/ Pool_get(s.tr, TorchEntity) = <<>> THEN s
    ELSE [s EXCEPT
            !.tr = Pool_store(@, TorchEntity,
                     [Pool_get(s.tr, TorchEntity)[1]
                        EXCEPT !.pos = [x |-> Pool_get(s.tr, Player)[1].pos.x,
                                        y |-> Pool_get(s.tr, Player)[1].pos.y
                                                - 20 * PosUnit]])]

\* gather_lights(ecs, lights); lightmap.build(world, cam, lights).  The
\* positions of the gathered lights are in position units.
Relit(s) ==
    [s EXCEPT !.out = gather_lights(s),
              !.built = BuildGrid(s.map,
                                  WithAmbient(VisibleGrid(s.cam, tile_px), s.lm.ambient),
                                  gather_lights(s), tile_px * PosUnit)]

\* The LightMap and the world are those build left.
Lit(s) == [s EXCEPT !.lm = s.built.lm, !.map = s.built.map]

\* One step of a frame, on s = [gen, tr, vel, col, light, player, map, out,
\* lm, cam, space, rate, built]; built is what build left, if it has run.
FrameStep(s, step) ==
    IF step = "sys_player" THEN sys_player(s, s.space)
    ELSE IF step = "sys_physics" THEN sys_physics(s, s.rate)
    ELSE IF step = "torch" THEN TorchFollows(s)
    ELSE Lit(Relit(s))

\* A frame that rebuilds the light before anything moves.
FrameSteps_lightfirst == <<"light", "sys_player", "sys_physics", "torch">>

\* The updates of one frame of the main loop, in the order it makes them.
FrameSteps == <<"sys_player", "sys_physics", "torch", "light">>

RECURSIVE RunSteps(_, _, _)
RunSteps(s, steps, i) ==
    IF i > Len(steps) THEN s
    ELSE RunSteps(FrameStep(s, steps[i]), steps, i + 1)

\* Cameras of a small window: over the spawn platform, and above it.
FrameCams == {Camera(0, 288, 1, 64, 64), Camera(0, 160, 1, 64, 64)}

InitFrames ==
    /\ gen = Registry_create(Registry_create(<<>>, <<>>).gen, <<>>).gen
    /\ free_list = <<>>
    /\ live = <<Player, TorchEntity>>
    /\ dead = {}
    /\ held = {}
    /\ ndestroy = 0
    /\ pool = Pool_add(EmptyPool, Player, CPlayer(360 * VelUnit, 640 * VelUnit))
    /\ call = Call("init", NoEntity, 0, "")
    /\ map = FloorWorld
    /\ wcall = NoWCall
    /\ nset = 0
    /\ tr = Pool_add(Pool_add(EmptyPool, Player, CTransform(0, 200 * PosUnit)),
                     TorchEntity, CTransform(0, 0))
    /\ vel = Pool_add(EmptyPool, Player, CVel(0, 0))
    /\ col = Pool_add(EmptyPool, Player, CCollider(14 * PosUnit, 20 * PosUnit))
    /\ light = Pool_add(EmptyPool, TorchEntity, CLight(12, 255))
    /\ out = <<>>
    /\ rate = 64
    /\ frame = 0
    /\ lm = [w |-> 0, h |-> 0, ox |-> 0, oy |-> 0, L |-> <<>>, ambient |-> 35]
    /\ lcall = [op |-> "init", cam |-> DefaultCam, lights |-> <<>>]
    /\ nbuild = 0
    /\ scall = NoSample
    /\ work = NoWork
    /\ queue = NoQueue

\* One pass of the body of while(app.frame_begin()), with the camera and
\* the space key as the frame finds them.
MainFrame(cam, space) ==
    /\ wcall.outcome # "trap"
    /\ Frame
    /\ \E s \in {RunSteps([gen |-> gen, tr |-> tr, vel |-> vel, col |-> col,
                            light |-> light, player |-> pool, map |-> map,
                            out |-> out, lm |-> lm, cam |-> cam, space |-> space,
                            rate |-> rate, built |-> [lm |-> lm, map |-> map]],
                           FrameSteps, 1)} :
         /\ tr' = s.tr
         /\ vel' = s.vel
         /\ col' = s.col
         /\ map' = s.map
         /\ out' = s.out
         /\ lm' = s.lm
    /\ lcall' = [op |-> "build", cam |-> cam, lights |-> out']
    /\ UNCHANGED <<ecsVars, call, wcall, nset, light, rate, nbuild, scall, work, queue>>

NextFrames == \E cam \in FrameCams, space \in BOOLEAN : MainFrame(cam, space)

\* The demo's main loop.
SpecFrames == InitFrames /\ [][NextFrames]_vars

-----------------------------------------------------------------------------
(* The world read and written between the frames of the main loop *)

\* The set-up with the player standing on the platform.
InitUse ==
    /\ gen = Registry_create(Registry_create(<<>>, <<>>).gen, <<>>).gen
    /\ free_list = <<>>
    /\ live = <<Player, TorchEntity>>
    /\ dead = {}
    /\ held = {}
    /\ ndestroy = 0
    /\ pool = Pool_add(EmptyPool, Player, CPlayer(360 * VelUnit, 640 * VelUnit))
    /\ call = Call("init", NoEntity, 0, "")
    /\ map = FloorWorld
    /\ wcall = NoWCall
    /\ nset = 0
    /\ tr = Pool_add(Pool_add(EmptyPool, Player, CTransform(0, 300 * PosUnit)),
                     TorchEntity, CTransform(0, 0))
    /\ vel = Pool_add(EmptyPool, Player, CVel(0, 0))
    /\ col = Pool_add(EmptyPool, Player, CCollider(14 * PosUnit, 20 * PosUnit))
    /\ light = Pool_add(EmptyPool, TorchEntity, CLight(12, 255))
    /\ out = <<>>
    /\ rate = 64
    /\ frame = 0
    /\ lm = [w |-> 0, h |-> 0, ox |-> 0, oy |-> 0, L |-> <<>>, ambient |-> 35]
    /\ lcall = [op |-> "init", cam |-> DefaultCam, lights |-> <<>>]
    /\ nbuild = 0
    /\ scall = NoSample
    /\ work = NoWork
    /\ queue = NoQueue

\* World tile coordinates of the get and set calls: the least int, a tile of
\* a chunk not yet created, a tile of the platform's chunk.
UseXs == {IntMin, -33, 3}

UseYs == {9}

\* Cameras: over the platform, and high enough for the torch's light to
\* reach the chunks above row 0.
UseCams == {Camera(0, 288, 1, 64, 64), Camera(0, 96, 1, 64, 64)}

UseGet(wx, wy) == GetStep(wx, wy, Address(wx, wy), World_get(map, wx, wy))

UseSet(wx, wy, v) == SetStep(wx, wy, v, Address(wx, wy))

NextUse ==
    \/ \E cam \in UseCams : MainFrame(cam, FALSE)
    \/ \E wx \in UseXs, wy \in UseYs : UseGet(wx, wy)
    \/ \E wx \in UseXs, wy \in UseYs, v \in TileVals : UseSet(wx, wy, v)

\* Frames of the main loop with get and set calls between them.
SpecUse == InitUse /\ [][NextUse]_vars

-----------------------------------------------------------------------------
(* One entity among every arrangement of solid tiles around it, over the   *)
(* floor                                                                   *)

\* The tiles that are solid or not: beside the entity on both sides, over
\* its head, and a step further right.
AroundTiles ==
    {<<1, 8>>, <<1, 9>>, <<3, 8>>, <<3, 9>>, <<2, 7>>, <<3, 7>>, <<4, 9>>}

\* Walls on the floor that keep the entity near the tiles.
WallTiles == {0, 5} \X (4..9)

\* The map m after world.set(x, y, 1) for every tile <<x, y>> of ts.
RECURSIVE SetAll(_, _)
SetAll(m, ts) ==
    IF ts = {} THEN m
    ELSE LET t == CHOOSE t \in ts : TRUE
         IN  SetAll(World_set(m, t[1], t[2], 1), ts \ {t})

\* Start positions (pixels): standing between the tiles, in the air between
\* them, and across two columns right under the tiles overhead.
AroundStarts ==
    { [x |-> 80, y |-> 300, standing |-> TRUE],
      [x |-> 80, y |-> 290, standing |-> FALSE],
      [x |-> 96, y |-> 276, standing |-> FALSE] }

\* Start velocities, pixels per second: less than a tile in a tick.
AroundVxs == {-1920, 0, 1920}

AroundVys == {-300, 0, 1800}

\* The AABB at pos with half extents half overlaps no solid tile of map m.
Clear(m, pos, half) ==
    \A tx \in TileRange(pos, half, tile_px).min_tx..TileRange(pos, half, tile_px).max_tx,
       ty \in TileRange(pos, half, tile_px).min_ty..TileRange(pos, half, tile_px).max_ty :
        ~(World_solid(TileAt(m, tx, ty))
            /\ aabb_overlaps_tile(pos, half, tile_px, tx, ty))

InitAround ==
    /\ gen = Registry_create(<<>>, <<>>).gen
    /\ free_list = <<>>
    /\ live = <<Player>>
    /\ dead = {}
    /\ held = {}
    /\ ndestroy = 0
    /\ pool = EmptyPool
    /\ call = Call("init", NoEntity, 0, "")
    /\ \E ts \in SUBSET AroundTiles : map = SetAll(FloorWorld, ts \cup WallTiles)
    /\ wcall = NoWCall
    /\ nset = 0
    /\ \E st \in AroundStarts, vx \in AroundVxs, vy \in AroundVys :
         /\ Clear(map, [x |-> st.x * PosUnit, y |-> st.y * PosUnit],
                  [x |-> 14 * PosUnit, y |-> 20 * PosUnit])
         /\ tr = Pool_add(EmptyPool, Player,
                          CTransform(st.x * PosUnit, st.y * PosUnit))
         /\ vel = Pool_add(EmptyPool, Player, CVel(vx * VelUnit, vy * VelUnit))
         /\ col = Pool_add(EmptyPool, Player,
                           [CCollider(14 * PosUnit, 20 * PosUnit)
                              EXCEPT !.on_ground = st.standing /\ vy = 0])
    /\ light = EmptyPool
    /\ out = <<>>
    /\ rate = 64
    /\ frame = 0
    /\ LightIdle

\* sys_physics called frame after frame on the entity among the tiles.
SpecAround == InitAround /\ [][NextPhysics]_vars

-----------------------------------------------------------------------------
(* The player jumping among the steps: sys_player and sys_physics called   *)
(* in any order.  The variable pool is ecs.player.                         *)

\* Jump speeds, pixels per second: CPlayer's default and the demo's.
JumpSpeeds == {520, 640}

\* Start positions (pixels): in the air, on the floor under the block
\* overhead, on the floor in the open, on the upper step.
JumpStarts ==
    { [x |-> 60,  y |-> 268, standing |-> FALSE],
      [x |-> 16,  y |-> 300, standing |-> TRUE],
      [x |-> 60,  y |-> 300, standing |-> TRUE],
      [x |-> 144, y |-> 236, standing |-> TRUE] }

InitJump ==
    /\ gen = Registry_create(<<>>, <<>>).gen
    /\ free_list = <<>>
    /\ live = <<Player>>
    /\ dead = {}
    /\ held = {}
    /\ ndestroy = 0
    /\ \E js \in JumpSpeeds :
         pool = Pool_add(EmptyPool, Player, CPlayer(360 * VelUnit, js * VelUnit))
    /\ call = Call("init", NoEntity, 0, "")
    /\ map = StepWorld
    /\ wcall = NoWCall
    /\ nset = 0
    /\ \E st \in JumpStarts :
         /\ tr = Pool_add(EmptyPool, Player,
                          CTransform(st.x * PosUnit, st.y * PosUnit))
         /\ \E og \in (IF st.standing THEN BOOLEAN ELSE {FALSE}) :
              col = Pool_add(EmptyPool, Player,
                             [CCollider(14 * PosUnit, 20 * PosUnit)
                                EXCEPT !.on_ground = og])
    /\ vel = Pool_add(EmptyPool, Player, CVel(0, 0))
    /\ light = EmptyPool
    /\ out = <<>>
    /\ rate = 64
    /\ frame = 0
    /\ LightIdle

\* sys_player(ecs, in, dt) with in.key_pressed[VK_SPACE] = space; call.v
\* keeps the key and call.path says whether a jump was made.
PlayerCall(space) ==
    /\ \E s \in {sys_player([gen |-> gen, player |-> pool, vel |-> vel,
                              col |-> col], space)} :
         /\ vel' = s.vel
         /\ col' = s.col
         /\ call' = Call("sys_player", NoEntity, IF space THEN 1 ELSE 0,
                         IF s.col # col THEN "jump" ELSE "stay")
    /\ UNCHANGED <<ecsVars, worldVars, tr, light, out, rate, frame, lightVars>>

NextJump ==
    \/ \E space \in BOOLEAN : PlayerCall(space)
    \/ Tick

SpecJump == InitJump /\ [][NextJump]_vars

-----------------------------------------------------------------------------
(* The LightMap rebuilt for cameras and light lists over two worlds *)

\* Values given to LightMap::ambient.
Ambients == {35, 120, 220}

LightSource(x, y, i) == [pos_px |-> [x |-> x, y |-> y], intensity |-> i]

\* Light sources: in tile (0, 9); in tile (0, 4); in tile (-3, 4); two weaker
\* ones in tile (0, 9); one inside the floor, in tile (-2, 10).
Torch == LightSource(16, 304, 255)

Lamp == LightSource(16, 144, 200)

SideLamp == LightSource(-80, 144, 200)

Ember == LightSource(20, 300, 30)

Candle == LightSource(4, 290, 100)

Buried == LightSource(-48, 336, 200)

\* The light lists build is called with.
LightLists ==
    {<<>>, <<Torch>>, <<Lamp>>, <<SideLamp>>, <<Torch, Candle>>,
     <<Lamp, SideLamp>>, <<Ember, Buried, Torch>>, <<Buried, Lamp, SideLamp>>}

\* Cameras: over tile (0, 11); over tile (0, 4); zoomed, over the corner of
\* the tiles (-1, 11) and (0, 12).
Cams ==
    {Camera(16, 368, 1, 16, 16), Camera(16, 144, 1, 16, 16),
     Camera(0, 368, 2, 64, 64)}

InitLight ==
    /\ ECSIdle
    /\ PhysIdle
    /\ map \in {EmptyMap, FloorWorld}
    /\ wcall = NoWCall
    /\ nset = 0
    /\ LightIdle

\* lightmap.ambient = a
SetAmbient(a) ==
    /\ scall.outcome # "trap"
    /\ ~work.busy
    /\ lm' = [lm EXCEPT !.ambient = a]
    /\ lcall' = [lcall EXCEPT !.op = "ambient"]
    /\ UNCHANGED <<ecsVars, call, worldVars, physVars, nbuild, scall, work, queue>>

BuiltTo(r) ==
    /\ lm' = r.lm
    /\ map' = r.map

\* lightmap.build(world, cam, lights)
Build(cam, lights) ==
    /\ scall.outcome # "trap"
    /\ nbuild < MaxBuilds
    /\ nbuild' = nbuild + 1
    /\ BuiltTo(LightMap_build(lm.ambient, map, cam, lights))
    /\ lcall' = [op |-> "build", cam |-> cam, lights |-> lights]
    /\ UNCHANGED <<ecsVars, call, wcall, nset, physVars, scall, work, queue>>

NextLight ==
    \/ \E a \in Ambients : SetAmbient(a)
    \/ \E cam \in Cams, lights \in LightLists : Build(cam, lights)

SpecLight == InitLight /\ [][NextLight]_vars

-----------------------------------------------------------------------------
(* LightMap::build run loop iteration by loop iteration *)

\* The shape and ambient of the LightMap l, as build's loops use them.
GridOf(l) == [ox |-> l.ox, oy |-> l.oy, w |-> l.w, h |-> l.h, ambient |-> l.ambient]

\* The number of cells whose value differs between the grids L1 and L2.
Raised(L1, L2) == Cardinality({i \in 1..Len(L1) : L2[i] # L1[i]})

\* The objects build's loops work on.
Working == [L |-> lm.L, q |-> queue.q, map |-> map, qi |-> work.qi]

\* The grid and the queue are those of b.
WorkedTo(b) ==
    /\ lm' = [lm EXCEPT !.L = b.L]
    /\ queue' = [q |-> b.q, raises |-> queue.raises + Raised(lm.L, b.L)]

\* A vector of n cells that keeps the cells it had: L.resize(n, v).
L_resize(L, n, v) == [i \in 1..n |-> IF i <= Len(L) THEN L[i] ELSE v]

\* L.assign(n, v)
L_assign(L, n, v) == [i \in 1..n |-> v]

\* build up to the seeding loop: the bounds, and L.assign(w * h, ambient).
\* It is the call number nbuild + 1 of at most n; lcall.was keeps, as
\* history, the LightMap the call found.
BuildEnter(cam, lights, n) ==
    /\ scall.outcome # "trap"
    /\ ~work.busy
    /\ nbuild < n
    /\ nbuild' = nbuild + 1
    /\ lcall' = [op |-> "build", cam |-> cam, lights |-> lights, was |-> lm]
    /\ queue' = NoQueue
    /\ \E g \in {VisibleGrid(cam, tile_px)} :
         IF g.w <= 0 \/ g.h <= 0
         THEN /\ lm' = [w |-> 0, h |-> 0, ox |-> g.ox, oy |-> g.oy, L |-> <<>>,
                        ambient |-> lm.ambient]
              /\ work' = NoWork
         ELSE /\ lm' = [w |-> g.w, h |-> g.h, ox |-> g.ox, oy |-> g.oy,
                        L |-> L_assign(lm.L, g.w * g.h, lm.ambient),
                        ambient |-> lm.ambient]
              /\ work' = [busy |-> TRUE, si |-> 1, qi |-> 0]
    /\ UNCHANGED <<ecsVars, call, worldVars, physVars, scall>>

BuildBegin(cam, lights) == BuildEnter(cam, lights, MaxBuilds)

\* The seeding loop is at a light.
Seeding == work.busy /\ work.si <= Len(lcall.lights)

\* The propagation loop is at a node.
Visiting == work.busy /\ work.si > Len(lcall.lights) /\ work.qi < Len(queue.q)

\* The build goes on to its next loop iteration, or returns.
Advance ==
    /\ work.busy
    /\ work' = IF Seeding THEN [work EXCEPT !.si = @ + 1]
               ELSE IF Visiting THEN [work EXCEPT !.qi = @ + 1]
               ELSE [work EXCEPT !.busy = FALSE]

\* One iteration of the seeding loop.
BuildSeed ==
    /\ Seeding
    /\ Advance
    /\ WorkedTo(LightMap_push(Working, GridOf(lm),
                              LightTile(lcall.lights[work.si], tile_px).x - lm.ox,
                              LightTile(lcall.lights[work.si], tile_px).y - lm.oy,
                              lcall.lights[work.si].intensity))
    /\ UNCHANGED <<ecsVars, call, worldVars, physVars, lcall, nbuild, scall>>

\* One iteration of the propagation loop.
BuildVisit ==
    /\ Visiting
    /\ Advance
    /\ \E b \in {VisitNext(Working, GridOf(lm))} :
         WorkedTo(b) /\ map' = b.map
    /\ UNCHANGED <<ecsVars, call, wcall, nset, physVars, lcall, nbuild, scall>>

\* The propagation loop ends and build returns.
BuildEnd ==
    /\ work.busy
    /\ ~Seeding
    /\ ~Visiting
    /\ Advance
    /\ UNCHANGED <<ecsVars, call, worldVars, physVars, lm, lcall, nbuild, scall,
                   queue>>

\* Light lists and cameras of the builds, and the ambient set before them.
LoopLists == {<<Torch>>, <<Candle, Torch>>, <<Ember, Buried, Torch>>}

LoopCams == {Camera(16, 368, 1, 16, 16), Camera(0, 368, 2, 64, 64)}

LoopAmbients == {0}

NextLoop ==
    \/ \E a \in LoopAmbients : SetAmbient(a)
    \/ \E cam \in LoopCams, lights \in LoopLists : BuildBegin(cam, lights)
    \/ BuildSeed
    \/ BuildVisit
    \/ BuildEnd

\* Builds run step by step; a build that has begun runs on until it
\* returns, nothing else being scheduled in between.
SpecLoop == InitLight /\ [][NextLoop]_vars /\ WF_work(Advance)

-----------------------------------------------------------------------------
(* The LightMap built again: other lights, another camera, another ambient *)

\* Light lists of the builds: a strong source, a weak one, none.
RebuildLists == {<<Torch>>, <<Ember>>, <<>>}

\* Cameras: over tile (0, 11); zoomed, over tile (2, 9).  Both see 9 x 9 tiles.
RebuildCams == {Camera(16, 368, 1, 16, 16), Camera(80, 304, 2, 32, 32)}

RebuildAmbients == {0}

NextRebuild ==
    \/ \E a \in RebuildAmbients : SetAmbient(a)
    \/ \E cam \in RebuildCams, lights \in RebuildLists :
         BuildEnter(cam, lights, MaxRebuilds)
    \/ BuildSeed
    \/ BuildVisit
    \/ BuildEnd

SpecRebuild == InitLight /\ [][NextRebuild]_vars

-----------------------------------------------------------------------------
(* The LightMap sampled between its builds *)

\* World tile coordinates sample_tile is called with.
SampleXs == {-5, 0, IntMax}

SampleYs == {IntMin, 9, 17}

\* Light lists of the sampled builds.
SampleLists == {<<>>, <<Torch>>}

\* lightmap.sample_tile(tx, ty), o the offsets it computes: a const method,
\* aborted or carried on with the wrapped offset when a subtraction
\* overflows.
SampleCall(tx, ty, o) ==
    /\ scall.outcome # "trap"
    /\ \E oc \in (IF o.x.ovf \/ o.y.ovf THEN UBOutcomes ELSE {"defined"}) :
         scall' = [op |-> "sample", tx |-> tx, ty |-> ty, outcome |-> oc,
                   ret |-> IF oc = "trap" THEN -1
                           ELSE SampleAt(lm, o.x.v, o.y.v)]
    /\ UNCHANGED <<ecsVars, call, worldVars, physVars, lm, lcall, nbuild, work, queue>>

SampleTile(tx, ty) == SampleCall(tx, ty, SampleOffset(lm, tx, ty))

NextSample ==
    \/ \E a \in Ambients : SetAmbient(a)
    \/ \E cam \in Cams, lights \in SampleLists : Build(cam, lights)
    \/ \E tx \in SampleXs, ty \in SampleYs : SampleTile(tx, ty)

SpecSample == InitLight /\ [][NextSample]_vars

-----------------------------------------------------------------------------
(* Claims about the registry and the pools *)

\* The slot of handle h is held by another, live entity.
SlotReused(h) ==
    \E i \in 1..Len(live) : ent_idx(live[i]) = ent_idx(h) /\ live[i] # h

\* C1 (stale-handle safety): once an entity E that held a component has been
\* destroyed and its slot is reused by a live entity E', has(E) is false and
\* get(E) is the null pointer.
C1_StaleHandleSafety ==
    \A h \in held :
        SlotReused(h) => ~Pool_has(pool, h) /\ Pool_get(pool, h) = <<>>

\* C2 (handle uniqueness): no two simultaneously live handles are equal.
C2_HandleUniqueness ==
    \A i, j \in 1..Len(live) : i # j => live[i] # live[j]

\* C3 (permanent death): a handle that destroy has invalidated is never
\* alive again.
C3_PermanentDeath ==
    \A h \in dead : ~Registry_alive(gen, h)

\* C4 (sparse/dense consistency): dense_idx and dense_val have equal length;
\* every dense position d has sparse[dense_idx[d]] = d; every sparse entry d
\* other than -1 of an index i has d < size() and dense_idx[d] = i.
C4_SparseDenseConsistency ==
    /\ Len(pool.dense_idx) = Len(pool.dense_val)
    /\ \A d \in 0..(Pool_size(pool) - 1) :
          /\ pool.dense_idx[d + 1] < Len(pool.sparse)
          /\ pool.sparse[pool.dense_idx[d + 1] + 1] = d
    /\ \A i \in 0..(Len(pool.sparse) - 1) :
          LET d == pool.sparse[i + 1] IN
          d # -1 => d >= 0 /\ d < Pool_size(pool) /\ pool.dense_idx[d + 1] = i

\* A remove has just moved the last dense row into the removed row's place,
\* in a pool that still holds two components.
C4_Witness ==
    /\ call.op = "remove"
    /\ call.path = "swap"
    /\ Pool_size(pool) >= 2

\* C5 (tile round trip): a get(wx, wy) made right after set(wx, wy, v)
\* returns v, for every coordinate the calls are made with, whether or not
\* the chunk existed before the set.
C5_TileRoundTrip ==
    [][(wcall.op = "set" /\ wcall'.op = "get"
        /\ wcall'.wx = wcall.wx /\ wcall'.wy = wcall.wy)
       => (wcall'.outcome # "trap" /\ wcall'.ret = wcall.v)]_vars

\* C6 (floor-division addressing): every get and set computes, on each axis,
\* c = floor(w / 32) and l = w - 32 * c with 0 <= l < 32, without an
\* overflowing operation, and the tile index ly * 32 + lx lies in 0..1023.
C6_FloorDivAddressing ==
    wcall.op \in {"get", "set"} =>
        /\ wcall.outcome = "defined"
        /\ wcall.cx = wcall.wx \div CHUNK
        /\ wcall.cy = wcall.wy \div CHUNK
        /\ wcall.lx = wcall.wx - CHUNK * (wcall.wx \div CHUNK)
        /\ wcall.ly = wcall.wy - CHUNK * (wcall.wy \div CHUNK)
        /\ wcall.lx \in 0..(CHUNK - 1)
        /\ wcall.ly \in 0..(CHUNK - 1)
        /\ wcall.idx = wcall.ly * CHUNK + wcall.lx
        /\ wcall.idx \in 0..(CHUNK * CHUNK - 1)

-----------------------------------------------------------------------------
(* Claims about the tile physics *)

\* The floor's top edge, in position units.
FloorTop == FloorY * tile_px * PosUnit

\* The bottom edge of the player's AABB, pos.y + half.y.
PlayerBottom ==
    Pool_get(tr, Player)[1].pos.y + Pool_get(col, Player)[1].half.y

\* The player stands on the floor.
AtRest ==
    /\ Pool_get(col, Player)[1].on_ground
    /\ Pool_get(vel, Player)[1].v.y = 0
    /\ PlayerBottom = FloorTop

\* The player's AABB has not entered or passed the floor.
NoTunnel == PlayerBottom <= FloorTop

\* C7 (collision containment): an entity with transform, velocity and a
\* non-zero collider that starts above the flat floor, overlapping no solid
\* tile, and is stepped by sys_physics with a fixed small dt never has its
\* bottom edge below the floor's top edge, and eventually reaches and then
\* keeps the state on_ground = true, v.y = 0, pos.y + half.y = floor top.
C7_CollisionContainment == []NoTunnel /\ <>[]AtRest

\* The player has landed from a fall.
C7_Witness ==
    /\ AtRest
    /\ rate = 64
    /\ DOMAIN map # DOMAIN FloorWorld

-----------------------------------------------------------------------------
(* Claims about the LightMap *)

\* The last call was build, so lm is the grid it produced.
JustBuilt == lcall.op = "build"

\* The world tiles of the grid.
GridTiles ==
    {t \in (lm.ox..(lm.ox + lm.w - 1)) \X (lm.oy..(lm.oy + lm.h - 1)) : TRUE}

\* sample_tile(t) on the LightMap.
Sample(t) == LightMap_sample_tile(lm, t[1], t[2])

SolidAt(t) == World_solid(TileAt(map, t[1], t[2]))

\* The solid tiles of the grid are the tiles of the floor.
FloorOnlyInGrid == \A t \in GridTiles : SolidAt(t) = (FloorTile(t[1], t[2]) # 0)

NoSolidInGrid == \A t \in GridTiles : ~SolidAt(t)

Abs(n) == IF n < 0 THEN -n ELSE n

\* Manhattan distance of tile t from the tile of light source ls.
Manhattan(ls, t) ==
    Abs(t[1] - LightTile(ls, tile_px).x) + Abs(t[2] - LightTile(ls, tile_px).y)

Max(a, b) == IF a > b THEN a ELSE b

\* The lists that hold the elements of list l in another order.
Orders(l) ==
    {[i \in 1..Len(l) |-> l[p[i]]] : p \in Permutations(1..Len(l))}

\* The end-to-end scene: the torch alone over the floor, ambient 35, the
\* tiles (0, 9) and (0, 14) in the grid.
TorchScene ==
    /\ JustBuilt
    /\ lcall.lights = <<Torch>>
    /\ lm.ambient = 35
    /\ FloorOnlyInGrid
    /\ <<0, 9>> \in GridTiles
    /\ <<0, 14>> \in GridTiles

\* C8 as stated (end-to-end light scenario): in the scene, sample_tile(0, 9)
\* is 255 and sample_tile(0, 14) is 165.
C8_Original ==
    TorchScene => Sample(<<0, 9>>) = 255 /\ Sample(<<0, 14>>) = 165

\* C8 (end-to-end light scenario): in a world whose only solid tiles are the
\* 1-tile-thick floor at y = 10, with one source of intensity 255 in tile
\* (0, 9), ambient 35 and a grid covering the tiles, sample_tile(0, 9) is 255
\* and sample_tile(0, 14) is 189 = 255 - 12 - 18 - 12 - 12 - 12: the light
\* leaves one solid tile and four air tiles on its way down.
C8_LightScenario ==
    TorchScene => Sample(<<0, 9>>) = 255 /\ Sample(<<0, 14>>) = 189

\* The torch's light has passed the floor and reached (0, 14) above ambient.
C8_Witness ==
    /\ TorchScene
    /\ SolidAt(<<0, 10>>)
    /\ Sample(<<0, 14>>) > lm.ambient

\* A single source of intensity 200 was built over a grid with no solid tile.
OpenField ==
    /\ JustBuilt
    /\ Len(lcall.lights) = 1
    /\ lcall.lights[1].intensity = 200
    /\ NoSolidInGrid

\* A grid tile nearer to the source is brighter, or both are at ambient.
Falloff ==
    \A a, b \in GridTiles :
        Manhattan(lcall.lights[1], a) < Manhattan(lcall.lights[1], b) =>
            \/ Sample(a) > Sample(b)
            \/ Sample(a) = lm.ambient /\ Sample(b) = lm.ambient

\* C9 as stated (light monotonicity): in the open field the falloff holds and
\* every sampled value is at most 200 and at least ambient.
C9_Original ==
    OpenField =>
        /\ Falloff
        /\ \A t \in GridTiles : Sample(t) <= 200 /\ Sample(t) >= lm.ambient

\* C9 (light monotonicity): after build with a single source of intensity 200
\* in a region with no solid tiles, of two grid tiles the one nearer to the
\* source tile by Manhattan distance has the greater sample, or both equal
\* ambient; every sampled value is at least ambient and at most the greater
\* of 200 and ambient.
C9_LightMonotonicity ==
    OpenField =>
        /\ Falloff
        /\ \A t \in GridTiles :
              Sample(t) <= Max(200, lm.ambient) /\ Sample(t) >= lm.ambient

\* The source lies in the grid and lights some tiles, others stay at ambient.
C9_Witness ==
    /\ OpenField
    /\ Sample(<<LightTile(lcall.lights[1], tile_px).x,
                LightTile(lcall.lights[1], tile_px).y>>) = 200
    /\ \E a, b \in GridTiles :
          /\ Sample(a) < 200
          /\ Sample(a) > Sample(b)
          /\ Sample(b) = lm.ambient

\* C10 (light order-independence): for the world, camera and ambient of a
\* build, building with the same light sources in any other order gives the
\* same grid, cell for cell.
C10_OrderIndependence ==
    JustBuilt =>
        \A lights \in Orders(lcall.lights) :
            LightMap_build(lm.ambient, map, lcall.cam, lights).lm = lm

\* Three sources were built, two of them in one tile and one of them at or
\* below ambient, and the grid is lit.
C10_Witness ==
    /\ JustBuilt
    /\ Len(lcall.lights) = 3
    /\ \E i, j \in 1..Len(lcall.lights) :
          /\ i # j
          /\ LightTile(lcall.lights[i], tile_px) = LightTile(lcall.lights[j], tile_px)
          /\ lcall.lights[i].intensity <= lm.ambient
    /\ \E t \in GridTiles : Sample(t) > lm.ambient

\* (tx, ty) lies inside the grid [ox, ox+w) x [oy, oy+h) of LightMap l.
InsideGrid(l, tx, ty) ==
    /\ tx >= l.ox
    /\ tx < l.ox + l.w
    /\ ty >= l.oy
    /\ ty < l.oy + l.h

\* The cell of the grid of l that holds world tile (tx, ty), inside it.
CellOf(l, tx, ty) == l.L[(ty - l.oy) * l.w + (tx - l.ox) + 1]

\* C11 (out-of-bounds light sample): every sample_tile(tx, ty) call ends
\* without error and leaves the grid as it is; it returns the stored cell
\* when (tx, ty) lies inside the grid and ambient for every coordinate
\* outside it, the empty grid included.
C11_OutOfBoundsSample ==
    [][(scall'.op = "sample" /\ scall' # scall) =>
          /\ scall'.outcome = "defined"
          /\ lm' = lm
          /\ scall'.ret = IF InsideGrid(lm, scall'.tx, scall'.ty)
                          THEN CellOf(lm, scall'.tx, scall'.ty)
                          ELSE lm.ambient]_vars

-----------------------------------------------------------------------------
(* Claims about the world's generated chunks *)

\* The chunk this world holds for the last get is the chunk a fresh world
\* generates when it is asked for the same chunk first.
ChunkAsFresh ==
    (nset = 0 /\ wcall.op = "get") =>
        /\ World_key(wcall.cx, wcall.cy) \in DOMAIN map
        /\ map[World_key(wcall.cx, wcall.cy)]
             = World_get_chunk(EmptyMap, wcall.cx, wcall.cy)[World_key(wcall.cx, wcall.cy)]

\* A get of the coordinate of the get before it returns the same code.
SameCodeAgain ==
    (/\ nset' = 0
     /\ wcall.op = "get"
     /\ wcall'.op = "get"
     /\ wcall'.wx = wcall.wx
     /\ wcall'.wy = wcall.wy) => wcall'.ret = wcall.ret

\* C12 (procedural determinism): on a world with no set calls, the tiles
\* held for a chunk depend only on its chunk coordinates: after any other
\* chunks were requested in any order the chunk equals the one a fresh world
\* generates for the same coordinates, and a repeated get of the same
\* coordinate returns the same code.
C12_ProceduralDeterminism == []ChunkAsFresh /\ [][SameCodeAgain]_vars

\* A chunk with ground in it was requested after another chunk, and the get
\* returned a tile of the ground.
C12_Witness ==
    /\ nset = 0
    /\ wcall.op = "get"
    /\ wcall.ret # 0
    /\ Cardinality(DOMAIN map) = 2
    /\ \E k \in DOMAIN map :
          /\ k # World_key(wcall.cx, wcall.cy)
          /\ map[k].tiles # map[World_key(wcall.cx, wcall.cy)].tiles

-----------------------------------------------------------------------------
(* Claims about the calls of the registry and the pool *)

\* C13 (create returns a live handle): right after every create call, on a
\* fresh slot or a reused one, the handle it returned is alive.
C13_CreateAlive ==
    call.op = "create" => Registry_alive(gen, call.h)

\* A create has reused a slot that was freed more than once before.
C13_Witness ==
    /\ call.op = "create"
    /\ call.path = "reuse"
    /\ ndestroy >= 2
    /\ ent_gen(call.h) # 1

\* The entity indices whose handles has() accepts; it rejects every index
\* from sparse.size() on.
HasIndices(p) == {i \in 0..Len(p.sparse) : Pool_has(p, make_ent(i, 1))}

\* C14 (size counts the components): after any sequence of add and remove
\* calls, size() is the number of distinct entity indices i for which has of
\* a handle with index i is true.
C14_SizeCountsHas == Pool_size(pool) = Cardinality(HasIndices(pool))

\* An add has overwritten a component in a pool that holds two components
\* and has an index without one.
C14_Witness ==
    /\ call.op = "add"
    /\ call.path = "overwrite"
    /\ Pool_size(pool) = 2
    /\ Len(pool.sparse) = 3

-----------------------------------------------------------------------------
(* Claims about the systems *)

\* The Transform, Velocity and Collider of handle h are the same before
\* and after the step.
ComponentsKept(h) ==
    /\ Pool_get(tr', h) = Pool_get(tr, h)
    /\ Pool_get(vel', h) = Pool_get(vel, h)
    /\ Pool_get(col', h) = Pool_get(col, h)

\* C15 (malformed entities are skipped): a sys_physics tick leaves the
\* Transform, Velocity and Collider of a live entity unchanged when the
\* entity lacks at least one of the three.
C15_MalformedSkipped ==
    [][frame' # frame =>
          \A h \in LiveSet :
              Incomplete([tr |-> tr, vel |-> vel, col |-> col], h) =>
                  ComponentsKept(h)]_vars

\* Handle h was destroyed and its slot has not been given out again.
DestroyedNotReused(h) ==
    /\ h \in dead
    /\ ~Registry_alive(gen, h)
    /\ \E k \in 1..Len(free_list) : free_list[k] = ent_idx(h)

\* C16 (liveness re-validation during iteration): after destroy(E), with
\* E's components still in the pools and E's slot not reused, a sys_physics
\* tick leaves E's Transform, Velocity and Collider unchanged, and
\* gather_lights pushes no light for E's slot.
C16_LivenessRevalidation ==
    /\ [][frame' # frame =>
             \A h \in dead : DestroyedNotReused(h) => ComponentsKept(h)]_vars
    /\ [](call.op = "gather" =>
             \A h \in dead : DestroyedNotReused(h) =>
                 \A k \in 1..Len(out) : ent_idx(out[k].e) # ent_idx(h))

\* The handle of a live entity that holds the slot of handle h and has a
\* component in the pool.
ReusedWithComponent(h) ==
    \E i \in 1..Len(live) :
        /\ ent_idx(live[i]) = ent_idx(h)
        /\ live[i] # h
        /\ Pool_has(pool, live[i])

\* C17 (stale-handle remove is a no-op): remove(h) with a handle h whose
\* entity was destroyed and whose slot is held by a live entity that has a
\* component leaves the pool unchanged.
C17_StaleRemoveNoop ==
    [][(/\ call'.op = "remove"
        /\ call'.h \in dead
        /\ ~Registry_alive(gen, call'.h)
        /\ ReusedWithComponent(call'.h)) => pool' = pool]_vars

\* The dense row of the entity index of handle h, which has a component.
RowOf(p, h) == p.sparse[ent_idx(h) + 1] + 1

\* add(h, v) on an entity with a component: only the value of its row
\* changes, to v.
Overwritten(h, v) ==
    /\ pool'.dense_idx = pool.dense_idx
    /\ pool'.sparse = pool.sparse
    /\ Len(pool'.dense_val) = Len(pool.dense_val)
    /\ Pool_get(pool', h) = <<v>>
    /\ \A d \in 1..Len(pool.dense_val) :
          d # RowOf(pool, h) => pool'.dense_val[d] = pool.dense_val[d]

\* add(h, v) on an entity without a component: one row (idx, v) is
\* appended and the rows before it are as they were.
Appended(h, v) ==
    /\ pool'.dense_idx = Append(pool.dense_idx, ent_idx(h))
    /\ pool'.dense_val = Append(pool.dense_val, v)
    /\ Pool_get(pool', h) = <<v>>

\* The value of every live entity other than h is as it was.
OthersKept(h) ==
    \A i \in 1..Len(live) :
        live[i] # h => Pool_get(pool', live[i]) = Pool_get(pool, live[i])

\* C18 (upsert frame): add(e, v) for an entity that has a component replaces
\* only that entity's value, get(e) is v afterwards, and size(), the dense
\* order, the sparse entries and every other entity's value are unchanged;
\* for an entity without a component it appends exactly one dense row and
\* changes no existing row.
C18_UpsertFrame ==
    [][call'.op = "add" =>
          IF Pool_has(pool, call'.h)
          THEN Overwritten(call'.h, call'.v) /\ OthersKept(call'.h)
          ELSE Appended(call'.h, call'.v)]_vars

\* C19 (remove without a component is a no-op): remove(e) leaves dense_idx,
\* dense_val and sparse unchanged when e's index is beyond the sparse array
\* or its sparse entry is -1.
C19_RemoveAbsentNoop ==
    [][(/\ call'.op = "remove"
        /\ \/ ent_idx(call'.h) >= Len(pool.sparse)
           \/ pool.sparse[ent_idx(call'.h) + 1] = -1) => pool' = pool]_vars

\* A remove of an entity whose sparse entry is -1 was made on a pool that
\* holds two components.
C19_Witness ==
    /\ call.op = "remove"
    /\ call.path = "absent"
    /\ Pool_size(pool) = 2

\* A destroy(h) of a handle that is not alive changes nothing.
DeadDestroyKeeps ==
    (call'.op = "destroy" /\ ~Registry_alive(gen, call'.h)) =>
        gen' = gen /\ free_list' = free_list

\* A destroy(h) of a handle that a destroy has invalidated before changes
\* nothing.
SecondDestroyKeeps ==
    (call'.op = "destroy" /\ call'.h \in dead) =>
        gen' = gen /\ free_list' = free_list

\* C20 (destroy of a dead handle is a no-op): destroy(h) leaves the
\* generation array and the free list unchanged when h's generation does
\* not match or its index is out of range, so a handle that is destroyed
\* twice frees its slot once.
C20_DestroyDeadNoop == [][DeadDestroyKeeps /\ SecondDestroyKeeps]_vars

-----------------------------------------------------------------------------
(* C21..C30 *)

\* C21 (generation 0 is never live): after any sequence of create and
\* destroy calls no slot's current generation is 0, and no handle returned
\* by create carries the generation 0.
C21_GenerationNeverZero ==
    /\ \A i \in 1..Len(gen) : gen[i] # 0
    /\ call.op = "create" => ent_gen(call.h) # 0

\* The registry, the pools and the world before this frame's sys_physics.
PhysState == [gen |-> gen, tr |-> tr, vel |-> vel, col |-> col, map |-> map]

\* The player's components after the step are those of b.
PlayerBecomes(b) ==
    /\ Pool_get(tr', Player)[1] = b.t
    /\ Pool_get(vel', Player)[1] = b.v
    /\ Pool_get(col', Player)[1] = b.c

\* The player's components after the X-axis advance and push-out, made on
\* the state s the gravity loop left.
AfterX(s) == BodyResolveX(MovedX(Body(s, Player), rate), tile_px)

\* The player's components after the Y-axis advance and push-out made on b.
AfterY(b) == BodyResolveY(MovedY(b, rate), tile_px)

\* C22 (X before Y): a sys_physics tick leaves a processed entity as the
\* Y-axis advance and scan leave it when they start from the position and
\* velocity the finished X-axis advance and push-out of the same tick
\* produced; in particular pos.x and v.x are those the X axis produced.
C22_XBeforeY ==
    [][frame' # frame =>
          \E g \in {GravityLoop(PhysState, 0, rate)} :
          \E bx \in {AfterX(g)} :
          \E by \in {AfterY(bx)} :
              /\ PlayerBecomes(by)
              /\ Pool_get(tr', Player)[1].pos.x = bx.t.pos.x
              /\ Pool_get(vel', Player)[1].v.x = bx.v.v.x]_vars

\* A tick has pushed the player out along X and then landed it on the step
\* it was pushed against: resolved Y-first it would have fallen beside it.
C22_Witness ==
    /\ Pool_get(tr, Player)[1].pos = [x |-> 114 * PosUnit, y |-> 268 * PosUnit]
    /\ Pool_get(vel, Player)[1].v = [x |-> 0, y |-> 0]
    /\ Pool_get(col, Player)[1].on_ground

\* The light list the last build was given holds, for each light entity, the
\* position its transform has now, at the end of the frame.
SeededFromFinal ==
    /\ lcall.lights = gather_lights([gen |-> gen, tr |-> tr, light |-> light])
    /\ \A i \in 1..Len(lcall.lights) :
         lcall.lights[i].pos_px = Pool_get(tr, lcall.lights[i].e)[1].pos

\* The grid is the one build makes of that list.
GridOfFinal ==
    lm = BuildGrid(map, WithAmbient(VisibleGrid(lcall.cam, tile_px), lm.ambient),
                   lcall.lights, tile_px * PosUnit).lm

\* C23 (light after movement): at the end of every frame of the main loop the
\* grid is the one build makes from the light entities' positions as
\* sys_player, sys_physics and the torch update of the same frame left them.
C23_LightAfterMovement == lcall.op = "build" => SeededFromFinal /\ GridOfFinal

\* The first frame has moved the torch from tile (0, 0) to the player, in
\* tile (0, 5), and the grid is lit there and not at the torch's old tile.
C23_Witness ==
    /\ lcall.op = "build"
    /\ lcall.cam.pos.y = 160
    /\ Pool_get(vel, Player)[1].v.y > 0
    /\ floor_div_tile(Pool_get(tr, TorchEntity)[1].pos.y, tile_px) = 5
    /\ LightMap_sample_tile(lm, 0, 5) = 255
    /\ LightMap_sample_tile(lm, 0, 0) < 255

\* The solid tiles of the scan range that overlap the AABB of b, as
\* <<tx, ty>>.
YContacts(b, r) ==
    {t \in (r.min_tx..r.max_tx) \X (r.min_ty..r.max_ty) :
        /\ World_solid(TileAt(b.map, t[1], t[2]))
        /\ aabb_overlaps_tile(b.t.pos, b.c.half, tile_px, t[1], t[2])}

\* After the tick the player is on the ground exactly when hits, the
\* contacts of its Y advance b, is not empty and b moves down; its bottom
\* edge is then on the top edge of one of them.
GroundFrom(b, hits) ==
    /\ Pool_get(col', Player)[1].on_ground <=> (b.v.v.y > 0 /\ hits # {})
    /\ Pool_get(col', Player)[1].on_ground =>
         \E t \in hits :
             Pool_get(tr', Player)[1].pos.y + b.c.half.y = t[2] * tile_px * PosUnit

\* C24 (on_ground reflects only the current tick): after a tick on_ground is
\* true if and only if, in this tick's Y scan, the entity overlapped a solid
\* tile while v.y > 0 and was put on that tile's top edge, whatever on_ground
\* was before the tick.
C24_GroundThisTick ==
    [][frame' # frame =>
          \E g \in {GravityLoop(PhysState, 0, rate)} :
          \E b \in {MovedY(AfterX(g), rate)} :
              GroundFrom(b, YContacts(b, TileRange(b.t.pos, b.c.half, tile_px)))]_vars

\* The player has walked off the step it stood on: it is beside the step,
\* falling, and no longer on the ground.
C24_Witness ==
    /\ Pool_get(tr, Player)[1].pos.x = 80 * PosUnit
    /\ Pool_get(tr, Player)[1].pos.y > 268 * PosUnit
    /\ Pool_get(tr, Player)[1].pos.y < 269 * PosUnit
    /\ Pool_get(vel, Player)[1].v.x = -1920 * VelUnit
    /\ ~Pool_get(col, Player)[1].on_ground

\* The X scan of resolve_axis_x on a.b with, in a.hits, the tiles it found
\* solid and overlapping when it came to them, in scan order.
RECURSIVE XHits(_, _, _)
XHits(a, r, tp) ==
    IF a.b.ty > r.max_ty THEN a.hits
    ELSE IF a.b.tx > r.max_tx
    THEN XHits([a EXCEPT !.b.tx = r.min_tx, !.b.ty = @ + 1], r, tp)
    ELSE XHits([b |-> [HitX(a.b, a.b.tx, a.b.ty, tp,
                            World_get(a.b.map, a.b.tx, a.b.ty))
                         EXCEPT !.tx = @ + 1],
                hits |-> IF /\ World_solid(TileAt(a.b.map, a.b.tx, a.b.ty))
                            /\ aabb_overlaps_tile(a.b.t.pos, a.b.c.half, tp,
                                                  a.b.tx, a.b.ty)
                         THEN Append(a.hits, <<a.b.tx, a.b.ty>>)
                         ELSE a.hits],
               r, tp)

\* The tiles the X scan of the advanced body b pushes out of.
XHitsOf(b, r) ==
    XHits([b |-> [b EXCEPT !.tx = r.min_tx, !.ty = r.min_ty], hits |-> <<>>],
          r, tile_px)

\* After the tick v.x is 0 and pos.x is where the last tile of hits pushes
\* the body b, which entered the scan with its velocity.
LastHitWins(b, hits) ==
    hits # <<>> =>
        /\ Pool_get(vel', Player)[1].v.x = 0
        /\ Pool_get(tr', Player)[1].pos.x
             = PushOutX(b, hits[Len(hits)][1], tile_px).t.pos.x

\* C25 (multi-tile X scan): when several solid tiles overlap the AABB during
\* one X scan, each in scan order corrects pos.x again, so that the final
\* pos.x is the push-out position of the last overlapping tile processed,
\* and v.x is 0 from the first hit on.
C25_MultiTileScanX ==
    [][frame' # frame =>
          \E g \in {GravityLoop(PhysState, 0, rate)} :
          \E b \in {MovedX(Body(g, Player), rate)} :
              LastHitWins(b, XHitsOf(b, TileRange(b.t.pos, b.c.half, tile_px)))]_vars

\* The tile codes of chunk c, as the set of <<wx, wy, code>>.
ChunkTiles(c) ==
    {<<c.cx * CHUNK + lx, c.cy * CHUNK + ly, c.tiles[ly * CHUNK + lx + 1]>> :
        lx \in 0..(CHUNK - 1), ly \in 0..(CHUNK - 1)}

\* The code t is the one the terrain rule gives a tile in row wy of a column
\* whose ground height is ground.
Classified(ground, wy, t) ==
    /\ t \in {0, 1, 2, 4}
    /\ t = 2 <=> wy > ground + 10
    /\ t = 1 <=> (ground < wy /\ wy <= ground + 10)
    /\ t = 4 <=> wy = ground
    /\ t = 0 <=> wy < ground

\* C26 (terrain classification): in a freshly generated chunk the tile at
\* world (wx, wy) is stone (2) when wy > ground(wx) + 10, dirt (1) when
\* ground(wx) < wy <= ground(wx) + 10, grass (4) when wy = ground(wx), empty
\* (0) when wy < ground(wx), and never any other code.
C26_TerrainClassification ==
    nset = 0 =>
        \A k \in DOMAIN map :
            \A t \in ChunkTiles(map[k]) : Classified(Ground(t[1]), t[2], t[3])

\* A generated chunk left of the origin holds tiles of all four kinds.
C26_Witness ==
    /\ nset = 0
    /\ \E k \in DOMAIN map :
         /\ map[k].cx < 0
         /\ {t[3] : t \in ChunkTiles(map[k])} = {0, 1, 2, 4}

\* The step is a set call.
SetStepTaken == nset' # nset

\* The set of chunk keys only grows.
KeysGrow == DOMAIN map \subseteq DOMAIN map'

\* Chunk k is as it was, but for the tile a set call of this step wrote.
ChunkKept(k) ==
    \/ map'[k] = map[k]
    \/ /\ SetStepTaken
       /\ k = World_key(wcall'.cx, wcall'.cy)
       /\ map'[k].cx = map[k].cx
       /\ map'[k].cy = map[k].cy
       /\ \A i \in 1..(CHUNK * CHUNK) :
            i # wcall'.idx + 1 => map'[k].tiles[i] = map[k].tiles[i]

\* What a get of (wx, wy) returns changes only by a set to (wx, wy), which
\* makes it the value written.
TileKept(wx, wy) ==
    IF SetStepTaken /\ wcall'.wx = wx /\ wcall'.wy = wy
    THEN TileAt(map', wx, wy) = wcall'.v
    ELSE TileAt(map', wx, wy) = TileAt(map, wx, wy)

\* A get call returns the tile's value.
GetReturnsTile ==
    (wcall'.op = "get" /\ wcall' # wcall) =>
        /\ wcall'.outcome = "defined"
        /\ wcall'.ret = TileAt(map, wcall'.wx, wcall'.wy)

\* C27 (chunks are created once and kept): over get and set calls, physics
\* ticks and light builds the set of chunk keys only grows, no existing
\* chunk is generated again, and a value written by set(wx, wy, v) is what
\* every later get(wx, wy) returns until the next set to (wx, wy).
C27_ChunksKept ==
    [][/\ KeysGrow
       /\ \A k \in DOMAIN map : ChunkKept(k)
       /\ \A wx \in UseXs, wy \in UseYs : TileKept(wx, wy)
       /\ GetReturnsTile]_vars

\* Every live entity other than h that had a component has it still, with
\* the value it had.
OthersHave(h) ==
    \A i \in 1..Len(live) :
        (live[i] # h /\ Pool_has(pool, live[i])) =>
            /\ Pool_has(pool', live[i])
            /\ Pool_get(pool', live[i]) = Pool_get(pool, live[i])

\* C28 (swap-remove postcondition): remove(e) for an entity that has a
\* component makes has(e) false, lowers size() by exactly 1, and leaves has(x)
\* true and get(x) unchanged for every other entity x that had a component,
\* the one whose row was moved from the last dense position included.
C28_SwapRemove ==
    [][(call'.op = "remove" /\ Pool_has(pool, call'.h)) =>
          /\ ~Pool_has(pool', call'.h)
          /\ Pool_size(pool') = Pool_size(pool) - 1
          /\ OthersHave(call'.h)]_vars

\* create() took the last index of the free list: the slot count and the
\* generations are unchanged and the handle carries the slot's generation.
TookFreeIndex(h) ==
    /\ ent_idx(h) = free_list[Len(free_list)]
    /\ free_list' = SubSeq(free_list, 1, Len(free_list) - 1)
    /\ gen' = gen
    /\ ent_gen(h) = gen[ent_idx(h) + 1]

\* create() appended a slot of generation 1, which the handle names.
AppendedSlot(h) ==
    /\ gen' = Append(gen, 1)
    /\ free_list' = free_list
    /\ ent_idx(h) = Len(gen) % U16

\* C29 (slot reuse policy): create takes an index from the free list
\* whenever the free list is not empty, returning the slot's current
\* generation and leaving the slot count unchanged, and appends a new slot
\* of generation 1 only when the free list is empty.
C29_SlotReusePolicy ==
    [][call'.op = "create" =>
          IF free_list # <<>> THEN TookFreeIndex(call'.h)
          ELSE AppendedSlot(call'.h)]_vars

\* create has reused slot 1, whose generation a destroy had bumped to 2,
\* while slot 0 is in use.
C29_Witness ==
    /\ call.op = "create"
    /\ call.path = "reuse"
    /\ call.h = make_ent(1, 2)
    /\ Len(gen) = 2
    /\ free_list = <<>>

\* The nodes of the queue q that are for cell (x, y).
NodesOf(q, x, y) == {i \in 1..Len(q) : q[i].x = x /\ q[i].y = y}

\* A step of a build appends a node for a cell exactly when it stores a
\* higher value to the cell, and the node holds that value.
AppendOnRaise ==
    (work.busy /\ work'.busy) =>
        /\ Len(queue'.q) - Len(queue.q) = Raised(lm.L, lm'.L)
        /\ \A i \in (Len(queue.q) + 1)..Len(queue'.q) :
             /\ lm'.L[queue'.q[i].y * lm.w + queue'.q[i].x + 1] = queue'.q[i].v
             /\ lm.L[queue'.q[i].y * lm.w + queue'.q[i].x + 1] < queue'.q[i].v

\* No cell has more than 255 nodes, and the queue is no longer than the
\* number of stores that raised a cell.
QueueBounded ==
    work.busy =>
        /\ \A x \in 0..(lm.w - 1), y \in 0..(lm.h - 1) :
             Cardinality(NodesOf(queue.q, x, y)) <= 255
        /\ Len(queue.q) <= queue.raises
        /\ queue.raises <= 255 * lm.w * lm.h

\* C30 (light propagation terminates): the worklist loop of every build
\* finishes; a cell is appended to the queue only when its stored value is
\* strictly raised, so no cell is enqueued more than 255 times and the queue
\* is no longer than the number of raises.
C30_PropagationTerminates ==
    /\ [][AppendOnRaise]_vars
    /\ []QueueBounded
    /\ (work.busy ~> ~work.busy)

\* A build has returned after its loop raised a cell more than once: the
\* queue is longer than the grid has cells.
C30_Witness ==
    /\ ~work.busy
    /\ lcall.op = "build"
    /\ work.qi = Len(queue.q)
    /\ Len(queue.q) > lm.w * lm.h

-----------------------------------------------------------------------------
(* C31..C38 *)

\* A build has returned and nothing was called since.
Finished == ~work.busy /\ lcall.op = "build"

\* No source of the last build can reach tile t: light loses at least the
\* decay of an empty tile on each of the steps from the source's tile.
Unreached(t) ==
    \A i \in 1..Len(lcall.lights) :
        lcall.lights[i].intensity - Decay(FALSE) * Manhattan(lcall.lights[i], t)
            <= lm.ambient

\* The grid is the one build makes of the world, the camera, the lights and
\* the ambient, whatever LightMap the call found.
FromInputsOnly ==
    lm = LightMap_build(lm.ambient, map, lcall.cam, lcall.lights).lm

\* C31 (rebuilt from scratch): when build has returned, the LightMap is the
\* one a build of a fresh LightMap gives for the same world tiles, camera,
\* light list and ambient (so building again with the same inputs gives the
\* same grid, and size and origin are those of the camera), and every cell
\* no light of the call reaches holds ambient, whatever it held before.
C31_RebuiltFromScratch ==
    Finished =>
        /\ FromInputsOnly
        /\ \A t \in GridTiles : Unreached(t) => Sample(t) = lm.ambient

\* A second build has returned; a tile that was lit, brighter than other
\* cells, in the LightMap the build found is in the new grid too, out of
\* reach of the new lights.
C31_Witness ==
    /\ Finished
    /\ nbuild = MaxRebuilds
    /\ \E t \in GridTiles :
         /\ InsideGrid(lcall.was, t[1], t[2])
         /\ CellOf(lcall.was, t[1], t[2]) > lm.ambient
         /\ \E i \in 1..Len(lcall.was.L) :
              lcall.was.L[i] < CellOf(lcall.was, t[1], t[2])
         /\ Unreached(t)

\* The player's on_ground flag and vertical velocity.
OnGround == Pool_get(col, Player)[1].on_ground

VelY == Pool_get(vel, Player)[1].v.y

\* A call of sys_player changes v.y or on_ground only by a jump: space was
\* just pressed, the flag was set and is cleared, and v.y is -jump_speed.
JumpOnlyFromGround ==
    (frame' = frame /\ (VelY' # VelY \/ OnGround' # OnGround)) =>
        /\ call'.op = "sys_player"
        /\ call'.v = 1
        /\ OnGround
        /\ ~OnGround'
        /\ VelY' = -Pool_get(pool, Player)[1].jump_speed

\* The flag is set only by a sys_physics tick in whose Y advance the player,
\* moving down, overlapped a solid tile and was put on that tile's top edge.
GroundOnlyByLanding ==
    (~OnGround /\ OnGround') =>
        /\ frame' # frame
        /\ \E g \in {GravityLoop(PhysState, 0, rate)} :
           \E b \in {MovedY(AfterX(g), rate)} :
               /\ b.v.v.y > 0
               /\ \E t \in YContacts(b, TileRange(b.t.pos, b.c.half, tile_px)) :
                    Pool_get(tr', Player)[1].pos.y + b.c.half.y
                        = t[2] * tile_px * PosUnit

\* C32 (no mid-air jump): sys_player sets v.y to -jump_speed only when the
\* jump key was just pressed and on_ground is true, and it clears on_ground
\* then; on_ground becomes true again only in a sys_physics tick whose Y
\* resolution pushed the entity, moving down, out of a solid tile.  So such
\* a tick lies between any two jumps of the entity.
C32_NoMidAirJump == [][JumpOnlyFromGround /\ GroundOnlyByLanding]_vars

\* The last sys_player call made the player jump, and ticks have since
\* brought it down on a tile: it can jump again.
C32_Witness ==
    /\ call.op = "sys_player"
    /\ call.path = "jump"
    /\ OnGround
    /\ VelY = 0

\* The player's AABB overlaps no solid tile.
PlayerClear ==
    Clear(map, Pool_get(tr, Player)[1].pos, Pool_get(col, Player)[1].half)

\* The advance the tick makes on each axis, with the velocity the gravity
\* loop leaves, is shorter than a tile.
BelowOneTile ==
    \E v \in {Fall(Pool_get(vel, Player)[1], rate).v} :
        /\ Abs(TimesDt(v.x, rate)) < tile_px * PosUnit
        /\ Abs(TimesDt(v.y, rate)) < tile_px * PosUnit

\* C33 (non-penetration): if the entity overlaps no solid tile before a
\* sys_physics tick whose advance is below one tile on each axis, its AABB
\* overlaps no solid tile after the tick (X resolution, then Y resolution),
\* for every arrangement of solid tiles around it.
C33_NonPenetration ==
    [][(frame' # frame /\ PlayerClear /\ BelowOneTile) =>
          \E m \in {map'}, t \in {Pool_get(tr', Player)[1].pos},
             h \in {Pool_get(col', Player)[1].half} : Clear(m, t, h)]_vars

\* A tick has pushed the player, which started clear of the tiles, out of
\* the solid tile (3, 9) along X and out of the floor along Y: it stands
\* against the tile, overlapping nothing.
C33_Witness ==
    /\ frame = 1
    /\ World_solid(TileAt(map, 3, 9))
    /\ Pool_get(tr, Player)[1].pos = [x |-> 82 * PosUnit, y |-> 300 * PosUnit]
    /\ Pool_get(vel, Player)[1].v = [x |-> 0, y |-> 0]
    /\ Pool_get(col, Player)[1].on_ground
    /\ PlayerClear

\* Coordinates whose tile is looked at before and after a call: those of the
\* calls, and the first tile of the last chunk.
ProbeXs == XCoords \cup {IntMax - CHUNK + 1}

ProbeYs == YCoords \cup {1}

\* In map n every probed coordinate but (wx, wy) has the code a get returns
\* for it in map m.
SameCodesBut(m, n, wx, wy) ==
    \A x \in ProbeXs, y \in ProbeYs :
        (x = wx /\ y = wy) \/ TileAt(n, x, y) = TileAt(m, x, y)

\* C34 (tile write frame): a set(wx, wy, v) call completes and leaves every
\* coordinate other than (wx, wy) with the code a get returned for it
\* before the call, in the same chunk and in every other chunk; a get call
\* completes and leaves every coordinate with its code.
C34_TileWriteFrame ==
    [][(wcall' # wcall \/ map' # map) =>
          /\ wcall'.outcome = "defined"
          /\ \E m \in {map}, n \in {map'} :
               IF wcall'.op = "set"
               THEN SameCodesBut(m, n, wcall'.wx, wcall'.wy)
               ELSE \A x \in ProbeXs, y \in ProbeYs :
                        TileAt(n, x, y) = TileAt(m, x, y)]_vars

\* The four orthogonal neighbours of tile t that lie in the grid.
GridNeighbours(t) ==
    {n \in GridTiles : Abs(n[1] - t[1]) + Abs(n[2] - t[2]) = 1}

\* What light loses when it leaves tile t.
LeavingLoss(t) == IF SolidAt(t) THEN 18 ELSE 12

\* C35 (light fixpoint): after build, for every grid cell c whose value is
\* above ambient and above 1, each of its orthogonal neighbours in the grid
\* has a value of at least L[c] - d, with d = 18 when c's world tile is
\* solid and d = 12 otherwise.
C35_LightFixpoint ==
    JustBuilt =>
        \A c \in GridTiles :
            (Sample(c) > lm.ambient /\ Sample(c) > 1) =>
                \A n \in GridNeighbours(c) : Sample(n) >= Sample(c) - LeavingLoss(c)

\* Light has left a solid tile into a neighbour that holds exactly 18 less,
\* and an empty tile into a solid neighbour that holds exactly 12 less.
C35_Witness ==
    /\ JustBuilt
    /\ \E c \in GridTiles : \E n \in GridNeighbours(c) :
         /\ SolidAt(c)
         /\ Sample(c) > lm.ambient
         /\ Sample(n) = Sample(c) - 18
    /\ \E c \in GridTiles : \E n \in GridNeighbours(c) :
         /\ ~SolidAt(c)
         /\ SolidAt(n)
         /\ Sample(c) > lm.ambient
         /\ Sample(n) = Sample(c) - 12

\* The highest intensity among the sources of the list, 0 for the empty list.
RECURSIVE Highest(_, _)
Highest(lights, i) ==
    IF i > Len(lights) THEN 0
    ELSE Max(lights[i].intensity, Highest(lights, i + 1))

\* The source's tile lies in the grid and its intensity is above ambient.
Effective(ls) ==
    /\ InsideGrid(lm, LightTile(ls, tile_px).x, LightTile(ls, tile_px).y)
    /\ ls.intensity > lm.ambient

\* C36 (light bounds): after build every cell value v of the grid satisfies
\* ambient <= v <= max(ambient, highest intensity among the sources), and
\* the grid is the one built from the list without the sources whose tile
\* lies outside the grid or whose intensity is at most ambient.
C36_LightBounds ==
    JustBuilt =>
        /\ \A i \in 1..Len(lm.L) :
             /\ lm.L[i] >= lm.ambient
             /\ lm.L[i] <= Max(lm.ambient, Highest(lcall.lights, 1))
        /\ LightMap_build(lm.ambient, map, lcall.cam,
                          SelectSeq(lcall.lights, Effective)).lm = lm

\* A build whose list held a source above ambient outside the grid and a
\* source inside it: a cell holds the highest intensity, others ambient.
C36_Witness ==
    /\ JustBuilt
    /\ \E i \in 1..Len(lcall.lights) :
         /\ lcall.lights[i].intensity > lm.ambient
         /\ ~Effective(lcall.lights[i])
    /\ \E i \in 1..Len(lm.L) :
         lm.L[i] = Highest(lcall.lights, 1) /\ lm.L[i] > lm.ambient
    /\ \E i \in 1..Len(lm.L) : lm.L[i] = lm.ambient


\* The indices of the free list.
FreeIndices == {free_list[i] : i \in 1..Len(free_list)}

\* C37 (free-list invariant): after any sequence of create and destroy calls
\* made with handles create has returned, free_list holds no index twice,
\* every index in it is below gen.size(), and no live handle's index is in
\* it.
C37_FreeListInvariant ==
    /\ \A i, j \in 1..Len(free_list) : i # j => free_list[i] # free_list[j]
    /\ \A i \in FreeIndices : i < Len(gen)
    /\ \A h \in LiveSet : ent_idx(h) \notin FreeIndices


\* Two key calls in a row with different coordinate pairs return different
\* keys.
KeysDiffer ==
    (/\ wcall.op = "key"
     /\ wcall'.op = "key"
     /\ <<wcall.cx, wcall.cy>> # <<wcall'.cx, wcall'.cy>>)
        => wcall'.ret # wcall.ret

\* The chunk a get call has looked up is the chunk of the coordinates the
\* call computed.
ChunkOfCall ==
    wcall.op = "get" =>
        LET k == World_key(wcall.cx, wcall.cy) IN
        /\ wcall.outcome # "trap" => k \in DOMAIN map
        /\ k \in DOMAIN map => map[k].cx = wcall.cx /\ map[k].cy = wcall.cy

\* C38 (chunk key packing is collision-free): key(cx1, cy1) # key(cx2, cy2)
\* for any two different pairs of chunk coordinates of the signed 32-bit
\* range, so two distinct chunks never share a map entry.
C38_KeyCollisionFree == []ChunkOfCall /\ [][KeysDiffer]_vars

\* Two chunks whose keys hold the same digits in exchanged halves are both
\* stored, and key has been called with the lowest cx.
C38_Witness ==
    /\ wcall.op = "key"
    /\ wcall.cx = IntMin
    /\ wcall.cy = -1
    /\ wcall.ret = <<32768, 0, 65535, 65535>>
    /\ {World_key(-1, 0), World_key(0, -1)} \subseteq DOMAIN map
    /\ map[World_key(-1, 0)].cx = -1
    /\ map[World_key(0, -1)].cy = -1

=============================================================================
